---- MODULE Spec2Model ----
(***************************************************************************)
(* TraceNotes: the anchor tracking and recovery engine of TraceManager.    *)
(*                                                                         *)
(* A document is a sequence of one-character strings.  Offsets are the     *)
(* 0-based offsets of the source; Slice(t, i, j) is t.slice(i, j).         *)
(* The alphabet has two non-whitespace characters, one of which ("." ) is  *)
(* a regular-expression metacharacter, and two whitespace characters.      *)
(***************************************************************************)
EXTENDS Integers, Sequences, FiniteSets, TLC

\* ---------------------------------------------------------------------
\* Bounds of the model
\* ---------------------------------------------------------------------

\* longest document the model edits
MaxDocLen == 6
\* number of change events handled in a behaviour
MaxEdits == 2
\* longest string in the inputs of the pure-function specification
MaxStrLen == 3

\* ---------------------------------------------------------------------
\* Program constants.  The source values (5000, 2000, 20, 500) are scaled
\* to the document lengths above so that a text can lie outside the search
\* window, exceed the pattern cap, and reach the triangulation threshold.
\* ---------------------------------------------------------------------

SEARCH_RADIUS == 1
MAX_REGEX_LENGTH == 5
minAnchorLength == 2
TailSlack == 1
MAX_DEPTH == 3

\* ---------------------------------------------------------------------
\* Text
\* ---------------------------------------------------------------------

SP == " "
NL == "\n"
Alphabet == {"a", ".", SP, NL}
\* the characters matched by \s and removed by trim()
WS == {SP, NL}
\* the characters the escape pattern /[.*+?^${}()|[\]\\]/ matches
RegexMeta == {"."}

Min(S) == CHOOSE x \in S : \A y \in S : x <= y
Max(S) == CHOOSE x \in S : \A y \in S : x >= y
MinOf(a, b) == IF a <= b THEN a ELSE b
MaxOf(a, b) == IF a >= b THEN a ELSE b

\* String.prototype.slice(i, j) for 0 <= i, j
Slice(t, i, j) == SubSeq(t, MinOf(i, Len(t)) + 1, MinOf(j, Len(t)))

\* String.prototype.indexOf(needle): first offset or -1
IndexOf(hay, needle) ==
    LET cands == {i \in 0..(Len(hay) - Len(needle)) :
                     SubSeq(hay, i + 1, i + Len(needle)) = needle}
    IN IF cands = {} THEN -1 ELSE Min(cands)

\* s.replace(/\s+/g, ' ')
RECURSIVE CollapseWs(_)
CollapseWs(t) ==
    IF t = <<>> THEN <<>>
    ELSE IF Head(t) \in WS
         THEN IF Len(t) > 1 /\ t[2] \in WS
              THEN CollapseWs(Tail(t))
              ELSE <<SP>> \o CollapseWs(Tail(t))
         ELSE <<Head(t)>> \o CollapseWs(Tail(t))

\* String.prototype.trim()
Trim(t) ==
    LET keep == {i \in 1..Len(t) : t[i] \notin WS}
    IN IF keep = {} THEN <<>> ELSE SubSeq(t, Min(keep), Max(keep))

\* s.split('\n')
RECURSIVE SplitLines(_)
SplitLines(t) ==
    LET nl == IndexOf(t, <<NL>>)
    IN IF nl < 0 THEN <<t>>
       ELSE <<Slice(t, 0, nl)>> \o SplitLines(Slice(t, nl + 1, Len(t)))

\* document.positionAt(offset).line
LineOf(t, offset) == Cardinality({i \in 1..MinOf(offset, Len(t)) : t[i] = NL})

\* contentMatches without the trim of both ends
contentMatches_NoTrim(docContent, storedContent) ==
    LET normDoc == CollapseWs(docContent)
        normStored == CollapseWs(storedContent)
    IN normDoc = normStored

\* contentMatches(docContent, storedContent)
contentMatches(docContent, storedContent) ==
    LET normDoc == Trim(CollapseWs(docContent))
        normStored == Trim(CollapseWs(storedContent))
    IN normDoc = normStored

\* ---------------------------------------------------------------------
\* Recovery Search
\* ---------------------------------------------------------------------

\* storedContent.replace(/[.*+?^${}()|[\]\\]/g, '\\$&'): a metacharacter
\* becomes an escaped literal, any other character stays raw
EscapeRegex(t) ==
    [i \in 1..Len(t) |->
        IF t[i] \in RegexMeta THEN [k |-> "lit", c |-> t[i]]
                              ELSE [k |-> "raw", c |-> t[i]]]

\* escapedContent.replace(/\s+/g, '\\s+'): every run of raw whitespace
\* becomes one "one or more whitespace" token
RECURSIVE FlexibleWs(_)
FlexibleWs(p) ==
    IF p = <<>> THEN <<>>
    ELSE IF Head(p).k = "raw" /\ Head(p).c \in WS
         THEN IF Len(p) > 1 /\ p[2].k = "raw" /\ p[2].c \in WS
              THEN FlexibleWs(Tail(p))
              ELSE <<[k |-> "ws", c |-> SP]>> \o FlexibleWs(Tail(p))
         ELSE <<Head(p)>> \o FlexibleWs(Tail(p))

\* what one pattern token matches: an escaped literal or an ordinary raw
\* character matches itself, a raw "." matches any character but a newline
TokenMatches(tok, ch) ==
    IF tok.k = "raw" /\ tok.c \in RegexMeta THEN ch # NL ELSE ch = tok.c

\* length of the whitespace run of text starting at offset pos
WsRun(text, pos) ==
    LET stops == {i \in pos..Len(text) : i = Len(text) \/ text[i + 1] \notin WS}
    IN Min(stops) - pos

\* the backtracking matcher: end offset of the match of pat[k..] at pos, or -1
RECURSIVE MatchFrom(_, _, _, _)
MatchFrom(pat, k, text, pos) ==
    IF k > Len(pat) THEN pos
    ELSE IF pat[k].k = "ws"
         THEN LET run == WsRun(text, pos)
                  ok == {n \in 1..run : MatchFrom(pat, k + 1, text, pos + n) >= 0}
              IN IF ok = {} THEN -1
                 ELSE MatchFrom(pat, k + 1, text, pos + Max(ok))
         ELSE IF pos < Len(text) /\ TokenMatches(pat[k], text[pos + 1])
              THEN MatchFrom(pat, k + 1, text, pos + 1)
              ELSE -1

\* new RegExp(src, 'g').exec(text): <<index, length>> of the leftmost match
\* or <<-1, 0>>
RegexExec(pat, text) ==
    LET starts == {i \in 0..Len(text) : MatchFrom(pat, 1, text, i) >= 0}
    IN IF starts = {} THEN <<-1, 0>>
       ELSE <<Min(starts), MatchFrom(pat, 1, text, Min(starts)) - Min(starts)>>

NoRange == <<-1, -1>>

searchStartOf(lastKnownStart) == MaxOf(0, lastKnownStart - SEARCH_RADIUS)
searchEndOf(fullText, storedContent, lastKnownStart) ==
    MinOf(Len(fullText), lastKnownStart + SEARCH_RADIUS + Len(storedContent))

\* the range of an exact match found at idx of a text that starts at base
ExactAt(base, length, idx) ==
    IF idx >= 0 THEN <<base + idx, base + idx + length>> ELSE NoRange

\* strategy 1 searching from the start of the window to the end of the
\* document
WindowExact_Unbounded(fullText, storedContent, lastKnownStart) ==
    ExactAt(searchStartOf(lastKnownStart), Len(storedContent),
            IndexOf(Slice(fullText, searchStartOf(lastKnownStart), Len(fullText)),
                    storedContent))

\* strategy 1: exact substring in the window
WindowExact(fullText, storedContent, lastKnownStart) ==
    ExactAt(searchStartOf(lastKnownStart), Len(storedContent),
            IndexOf(Slice(fullText, searchStartOf(lastKnownStart),
                          searchEndOf(fullText, storedContent, lastKnownStart)),
                    storedContent))

\* the range of the regex match <<index, length>> in the window
FlexibleAt(searchStart, match) ==
    IF match[1] >= 0
    THEN <<searchStart + match[1], searchStart + match[1] + match[2]>>
    ELSE NoRange

\* strategy 2: whitespace-flexible pattern in the window
WindowFlexible(fullText, storedContent, lastKnownStart) ==
    IF Len(storedContent) <= MAX_REGEX_LENGTH
    THEN FlexibleAt(searchStartOf(lastKnownStart),
                    RegexExec(FlexibleWs(EscapeRegex(storedContent)),
                              Slice(fullText, searchStartOf(lastKnownStart),
                                    searchEndOf(fullText, storedContent, lastKnownStart))))
    ELSE NoRange

\* lines 795-799: the range from the head to the end of the tail
TailRange(searchStart, headIdx, searchTailStart, tailLength, tailIdxInSlice) ==
    IF tailIdxInSlice >= 0
    THEN <<searchStart + headIdx, searchStart + searchTailStart + tailIdxInSlice + tailLength>>
    ELSE NoRange

\* lines 787-793: the tail searched around its expected position
TailSearch(searchStart, searchArea, storedLength, tailText, headIdx) ==
    LET expectedTailPos == headIdx + storedLength
        searchTailStart == MaxOf(headIdx, expectedTailPos - TailSlack)
        searchTailEnd == MinOf(Len(searchArea), expectedTailPos + TailSlack)
    IN IF headIdx >= 0
       THEN TailRange(searchStart, headIdx, searchTailStart, Len(tailText),
                      IndexOf(Slice(searchArea, searchTailStart, searchTailEnd), tailText))
       ELSE NoRange

\* lines 782-786: the guard of the strategy and the head searched in the
\* window; tailText and headIdx are bound to their values
HeadSearch(searchStart, searchArea, storedContent, contentLines) ==
    IF Len(contentLines) >= 3 /\ Len(storedContent) > minAnchorLength * 2
    THEN CHOOSE r \in {TailSearch(searchStart, searchArea, Len(storedContent), tailText, headIdx) :
                          tailText \in {Trim(contentLines[Len(contentLines)])},
                          headIdx \in {IndexOf(searchArea, Trim(contentLines[1]))}} : TRUE
    ELSE NoRange

\* strategy 3: head/tail triangulation; searchArea and contentLines are
\* bound to their values
HeadTail(fullText, storedContent, lastKnownStart) ==
    CHOOSE r \in {HeadSearch(searchStartOf(lastKnownStart), searchArea, storedContent, contentLines) :
                     searchArea \in {Slice(fullText, searchStartOf(lastKnownStart),
                                           searchEndOf(fullText, storedContent, lastKnownStart))},
                     contentLines \in {SplitLines(Trim(storedContent))}} : TRUE

\* strategy 4: exact substring in the whole document
WholeExact(fullText, storedContent) ==
    ExactAt(0, Len(storedContent), IndexOf(fullText, storedContent))

\* the cascade: the result of the first strategy that found a range;
\* strategy 0 is null
Cascade(r1, r2, r3, r4) ==
    IF r1 # NoRange THEN [strategy |-> 1, range |-> r1]
    ELSE IF r2 # NoRange THEN [strategy |-> 2, range |-> r2]
    ELSE IF r3 # NoRange THEN [strategy |-> 3, range |-> r3]
    ELSE IF r4 # NoRange THEN [strategy |-> 4, range |-> r4]
    ELSE [strategy |-> 0, range |-> NoRange]

\* recoverTracePoints without the whole-document fallback
recoverTracePoints_NoGlobal(fullText, storedContent, lastKnownStart) ==
    Cascade(WindowExact(fullText, storedContent, lastKnownStart),
            WindowFlexible(fullText, storedContent, lastKnownStart),
            HeadTail(fullText, storedContent, lastKnownStart),
            NoRange)

\* lines 761-777: the try block around new RegExp and exec; throws says
\* that one of them raises an error, which the catch logs
FlexibleTry(fullText, storedContent, lastKnownStart, throws) ==
    IF throws THEN NoRange ELSE WindowFlexible(fullText, storedContent, lastKnownStart)

\* the cascade with the pattern tried before the exact search of the window
recoverWith_FlexibleFirst(fullText, storedContent, lastKnownStart, throws) ==
    CHOOSE r \in {[strategy |-> IF c.strategy \in {1, 2} THEN 3 - c.strategy ELSE c.strategy,
                    range |-> c.range] :
                      c \in {Cascade(FlexibleTry(fullText, storedContent, lastKnownStart, throws),
                                      WindowExact(fullText, storedContent, lastKnownStart),
                                      HeadTail(fullText, storedContent, lastKnownStart),
                                      WholeExact(fullText, storedContent))}} : TRUE

\* the cascade without the catch: an error of the pattern leaves the
\* function, strategy -1 standing for the raised error
recoverWith_NoCatch(fullText, storedContent, lastKnownStart, throws) ==
    IF /\ throws
       /\ Len(storedContent) <= MAX_REGEX_LENGTH
       /\ WindowExact(fullText, storedContent, lastKnownStart) = NoRange
    THEN [strategy |-> -1, range |-> NoRange]
    ELSE Cascade(WindowExact(fullText, storedContent, lastKnownStart),
                 FlexibleTry(fullText, storedContent, lastKnownStart, throws),
                 HeadTail(fullText, storedContent, lastKnownStart),
                 WholeExact(fullText, storedContent))

\* lines 749-808 with the behaviour of the regular-expression engine given
recoverWith(fullText, storedContent, lastKnownStart, throws) ==
    Cascade(WindowExact(fullText, storedContent, lastKnownStart),
            FlexibleTry(fullText, storedContent, lastKnownStart, throws),
            HeadTail(fullText, storedContent, lastKnownStart),
            WholeExact(fullText, storedContent))

\* recoverTracePoints: [strategy |-> 0..4, range |-> ...]
recoverTracePoints(fullText, storedContent, lastKnownStart) ==
    recoverWith(fullText, storedContent, lastKnownStart, FALSE)

\* the "smart dedent" of collectTrace and relocateTrace
LeadingWs(line) ==
    LET stops == {i \in 0..Len(line) : i = Len(line) \/ line[i + 1] \notin WS}
    IN Min(stops)

RECURSIVE JoinLines(_)
JoinLines(lines) ==
    IF Len(lines) = 1 THEN lines[1]
    ELSE lines[1] \o <<NL>> \o JoinLines(Tail(lines))

\* the smallest indentation of the lines that are not blank
IndentOf(lines) ==
    LET indents == {LeadingWs(lines[i]) : i \in {j \in 1..Len(lines) : Trim(lines[j]) # <<>>}}
    IN IF indents = {} THEN 0 ELSE Min(indents)

\* every line without its first effectiveIndent characters
DedentBy(lines, effectiveIndent) ==
    JoinLines([i \in 1..Len(lines) |->
                 IF Len(lines[i]) >= effectiveIndent
                 THEN Slice(lines[i], effectiveIndent, Len(lines[i]))
                 ELSE lines[i]])

Dedent(text) ==
    CHOOSE r \in {DedentBy(lines, IndentOf(lines)) : lines \in {SplitLines(text)}} : TRUE

\* ---------------------------------------------------------------------
\* State
\* ---------------------------------------------------------------------

Docs == {"f1", "f2"}
Null == "null"
\* the null of activeGroupId and of a parentIdMap value: no anchor has id 0
NoId == 0

VARIABLES
    \* the host's documents: live text of each
    docText,
    \* every TracePoint object ever created, by id
    traces,
    \* TraceManager fields
    trees, activeTreeId, activeGroupId,
    traceIndex, traceIdMap, parentIdMap,
    pendingValidationDocs, validationDebounceTimer,
    \* the background validation switchTree starts: todo, the anchors its
    \* loop has not validated yet; stray, the anchors on which a call of
    \* validateAndRecover of a cancelled run is still in flight
    treeValidation,
    \* history: outcome of the last validation of an anchor since the last
    \* change of its document; the operation of the last step (for a change
    \* event its document and changes, for a validation slice the anchors it
    \* validated); number of change events and relocations so far (of
    \* operations of the user under SpecTree)
    hist, last, edits,
    \* persistence: whether the 2 s timer of persist is armed, and the value
    \* of workspaceState under storageKey (the trees as serialized)
    persistenceDebounceTimer, workspaceState,
    \* inputs of the pure-function specification and the results of its calls
    pureIn, pureOut,
    \* the files of the FileStorageManager and the position of its save
    storage

docVars == <<docText>>
treeVars == <<trees, activeTreeId, activeGroupId>>
mapVars == <<traceIdMap, parentIdMap>>
schedVars == <<pendingValidationDocs, validationDebounceTimer>>
pureVars == <<pureIn, pureOut, storage>>
saveVars == <<persistenceDebounceTimer, workspaceState>>
vars == <<docText, traces, trees, activeTreeId, activeGroupId, traceIndex,
          traceIdMap, parentIdMap, pendingValidationDocs,
          validationDebounceTimer, treeValidation, hist, last, edits,
          persistenceDebounceTimer, workspaceState, pureIn, pureOut, storage>>

\* ---------------------------------------------------------------------
\* Tree helpers
\* ---------------------------------------------------------------------

SeqToSet(s) == {s[i] : i \in 1..Len(s)}

RemoveAt(s, i) == SubSeq(s, 1, i - 1) \o SubSeq(s, i + 1, Len(s))

\* findIndex(t => t.id === id): 1-based position of the first, or 0
FindIndex(s, id) ==
    LET hits == {i \in 1..Len(s) : s[i] = id}
    IN IF hits = {} THEN 0 ELSE Min(hits)

TreePos(tid) == FindIndex([i \in 1..Len(trees) |-> trees[i].id], tid)

\* getActiveRootTraces
getActiveRootTraces ==
    IF TreePos(activeTreeId) = 0 THEN <<>> ELSE trees[TreePos(activeTreeId)].traces

\* getAllFlat(list): pre-order flattening, over the objects tr
RECURSIVE FlatOf(_, _)
FlatOf(tr, list) ==
    IF list = <<>> THEN <<>>
    ELSE <<Head(list)>> \o FlatOf(tr, tr[Head(list)].children)
                        \o FlatOf(tr, Tail(list))

getAllFlat == FlatOf(traces, getActiveRootTraces)

\* getActiveChildren resets a group that findTraceById no longer finds
ResolvedGroup ==
    IF activeGroupId # NoId /\ activeGroupId \notin traceIdMap THEN NoId ELSE activeGroupId

\* target.push(id) on the list getActiveChildren returns: the new trees and
\* the new objects
PushActive(tr, id) ==
    IF ResolvedGroup = NoId
    THEN [trees |-> IF TreePos(activeTreeId) = 0 THEN trees
                    ELSE [trees EXCEPT ![TreePos(activeTreeId)].traces = Append(@, id)],
          traces |-> tr]
    ELSE [trees |-> trees,
          traces |-> [tr EXCEPT ![ResolvedGroup].children = Append(@, id)]]

\* ---------------------------------------------------------------------
\* Initial state: the manager after construction on an empty workspace
\* state (restore, lines 91-109), and the documents of the host
\* ---------------------------------------------------------------------

InitText1 == <<"a", NL, ".", NL, "a">>
InitText2 == <<"a", ".">>

\* history of an anchor: o is the branch its last validation took ("none"
\* when its document changed since, "stale" when a change overlapped it
\* without being contained since), n the number of validations since then
Unvalidated == [o |-> "none", n |-> 0]
Stale == [o |-> "stale", n |-> 0]
Validated(h, outcome) == [o |-> outcome, n |-> IF h.n >= 2 THEN 2 ELSE h.n + 1]

NoLast == [op |-> "init", ids |-> {}, doc |-> Null, changes |-> <<>>, fired |-> FALSE]

\* workspaceState.get(storageKey) of a workspace in which nothing was saved
NoSave == <<>>

\* no background validation: nothing to validate, no call in flight, no
\* change found, no run in progress
NoTreeValidation ==
    [todo |-> <<>>, stray |-> {}, changed |-> FALSE, running |-> FALSE,
     orig |-> <<>>, inFlight |-> FALSE]

InitManager ==
    /\ traces = <<>>
    /\ trees = <<[id |-> "default", name |-> "Default Trace", traces |-> <<>>]>>
    /\ activeTreeId = "default"
    /\ activeGroupId = NoId
    /\ traceIndex = [d \in Docs |-> <<>>]
    /\ traceIdMap = {}
    /\ parentIdMap = <<>>
    /\ pendingValidationDocs = <<>>
    /\ validationDebounceTimer = "none"
    /\ treeValidation = NoTreeValidation
    /\ persistenceDebounceTimer = FALSE
    /\ workspaceState = NoSave
    /\ hist = <<>>
    /\ last = NoLast
    /\ edits = 0

\* no file in the storage directory and no save running; a file is <<>>
\* when it does not exist and <<text>> otherwise
NoStorage ==
    [main |-> <<>>, backup |-> <<>>, temp |-> <<>>, pc |-> "idle", data |-> <<>>,
     saved |-> <<>>, tried |-> {}, loaded |-> <<>>, calls |-> 0]

Init ==
    /\ docText = [d \in Docs |-> IF d = "f1" THEN InitText1 ELSE InitText2]
    /\ InitManager
    /\ pureIn = <<>>
    /\ pureOut = <<>>
    /\ storage = NoStorage

\* ---------------------------------------------------------------------
\* collectTrace + add
\* ---------------------------------------------------------------------

\* persist() (lines 112-126) when c holds: the timer is cleared and armed
\* again, nothing is written
persistIf(c) ==
    /\ persistenceDebounceTimer' = (c \/ persistenceDebounceTimer)
    /\ workspaceState' = workspaceState

persist == persistIf(TRUE)

\* the TracePoint collectTrace builds from a non-empty selection [s, e)
collectTrace(d, s, e) ==
    [filePath |-> d,
     rangeOffset |-> <<s, e>>,
     lineRange |-> <<LineOf(docText[d], s), LineOf(docText[d], e)>>,
     content |-> Dedent(Slice(docText[d], s, e)),
     lang |-> "plaintext",
     note |-> "",
     orphaned |-> FALSE,
     highlight |-> "none",
     children |-> <<>>]

Put(f, k, v) == [x \in (DOMAIN f) \cup {k} |-> IF x = k THEN v ELSE f[x]]

add(trace) ==
    LET id == Len(traces) + 1
        pushed == PushActive(Append(traces, trace), id)
    IN /\ trees' = pushed.trees
       /\ traces' = pushed.traces
       /\ activeGroupId' = ResolvedGroup
       /\ traceIndex' = [traceIndex EXCEPT ![trace.filePath] = Append(@, id)]
       /\ traceIdMap' = traceIdMap \cup {id}
       /\ parentIdMap' = Put(parentIdMap, id, ResolvedGroup)
       /\ hist' = Append(hist, Unvalidated)
       /\ last' = [op |-> "add", ids |-> {}, doc |-> Null, changes |-> <<>>, fired |-> FALSE]
       /\ persist
       /\ UNCHANGED <<docText, activeTreeId, schedVars, treeValidation, pureVars>>

\* ---------------------------------------------------------------------
\* Change events of the host
\* ---------------------------------------------------------------------

\* texts typed or pasted by a single change; texts of a two-change event
InsertTexts == {<<>>, <<"a">>, <<SP>>}
BatchTexts == {<<>>, <<"a">>}

\* TextDocumentContentChangeEvent: replace [rangeOffset, rangeOffset +
\* rangeLength) of the text before the event by text
Changes(t, texts, maxDel) ==
    {c \in [rangeOffset : 0..Len(t), rangeLength : 0..maxDel, text : texts] :
        /\ c.rangeOffset + c.rangeLength <= Len(t)
        /\ ~(c.rangeLength = 0 /\ c.text = <<>>)}

\* contentChanges of one event: the host delivers the changes of one edit
\* in offsets of the text before the event, disjoint, bottom-to-top.  The
\* events are every single change, and the two-change events that cut one
\* character in one place and put one in another.
Events(t) ==
    {<<c>> : c \in Changes(t, InsertTexts, MaxDocLen)}
    \cup {e \in {<<c1, c2>> : c1 \in Changes(t, BatchTexts, 1),
                              c2 \in Changes(t, BatchTexts, 1)} :
              Len(e[1].text) + Len(e[2].text) = e[1].rangeLength + e[2].rangeLength}

BottomUp(changes) ==
    \A i \in 1..(Len(changes) - 1) :
        changes[i + 1].rangeOffset + changes[i + 1].rangeLength <= changes[i].rangeOffset

ApplyChange(t, c) ==
    Slice(t, 0, c.rangeOffset) \o c.text \o Slice(t, c.rangeOffset + c.rangeLength, Len(t))

RECURSIVE ApplyAll(_, _)
ApplyAll(t, changes) ==
    IF changes = <<>> THEN t ELSE ApplyAll(ApplyChange(t, Head(changes)), Tail(changes))

\* ---------------------------------------------------------------------
\* Offset Adjuster: handleTextDocumentChange
\* ---------------------------------------------------------------------

\* AdjustRange with the shift applied to the start only
AdjustRange_ShiftStartOnly(range, change) ==
    LET changeStart == change.rangeOffset
        changeEnd == changeStart + change.rangeLength
        delta == Len(change.text) - change.rangeLength
        start == range[1]
        end == range[2]
    IN IF changeEnd <= start
       THEN [range |-> <<start + delta, end>>, needs |-> TRUE, approx |-> FALSE]
       ELSE IF changeStart >= end
       THEN [range |-> range, needs |-> FALSE, approx |-> FALSE]
       ELSE IF changeStart >= start /\ changeEnd <= end
       THEN [range |-> <<start, end + delta>>, needs |-> TRUE, approx |-> FALSE]
       ELSE [range |-> range, needs |-> TRUE, approx |-> TRUE]

\* AdjustRange with a contained change that starts at the anchor's start
\* treated as a change before the anchor
AdjustRange_ContainedShifts(range, change) ==
    LET changeStart == change.rangeOffset
        changeEnd == changeStart + change.rangeLength
        delta == Len(change.text) - change.rangeLength
        start == range[1]
        end == range[2]
    IN IF changeStart <= start /\ changeEnd <= end
       THEN [range |-> <<start + delta, end + delta>>, needs |-> TRUE, approx |-> FALSE]
       ELSE IF changeStart >= end
       THEN [range |-> range, needs |-> FALSE, approx |-> FALSE]
       ELSE IF changeStart >= start /\ changeEnd <= end
       THEN [range |-> <<start, end + delta>>, needs |-> TRUE, approx |-> FALSE]
       ELSE [range |-> range, needs |-> TRUE, approx |-> TRUE]

\* AdjustRange with the best-effort branch treated as a contained change
AdjustRange_ApproxUnmarked(range, change) ==
    LET changeStart == change.rangeOffset
        changeEnd == changeStart + change.rangeLength
        delta == Len(change.text) - change.rangeLength
        start == range[1]
        end == range[2]
    IN IF changeEnd <= start
       THEN [range |-> <<start + delta, end + delta>>, needs |-> TRUE, approx |-> FALSE]
       ELSE IF changeStart >= end
       THEN [range |-> range, needs |-> FALSE, approx |-> FALSE]
       ELSE [range |-> <<start, end + delta>>, needs |-> TRUE, approx |-> FALSE]

\* AdjustRange with a change at or after the anchor's end shifting the
\* range like a change before it
AdjustRange_ShiftsAfter(range, change) ==
    LET changeStart == change.rangeOffset
        changeEnd == changeStart + change.rangeLength
        delta == Len(change.text) - change.rangeLength
        start == range[1]
        end == range[2]
    IN IF changeEnd <= start \/ changeStart >= end
       THEN [range |-> <<start + delta, end + delta>>, needs |-> TRUE, approx |-> FALSE]
       ELSE IF changeStart >= start /\ changeEnd <= end
       THEN [range |-> <<start, end + delta>>, needs |-> TRUE, approx |-> FALSE]
       ELSE [range |-> range, needs |-> TRUE, approx |-> TRUE]

\* lines 570-590, for one change and one trace: the new rangeOffset,
\* whether the branch sets needsValidation, and whether it is the branch
\* that leaves the range as it was although the change overlaps it
AdjustRange(range, change) ==
    LET changeStart == change.rangeOffset
        changeEnd == changeStart + change.rangeLength
        delta == Len(change.text) - change.rangeLength
        start == range[1]
        end == range[2]
    IN IF changeEnd <= start
       THEN [range |-> <<start + delta, end + delta>>, needs |-> TRUE, approx |-> FALSE]
       ELSE IF changeStart >= end
       THEN [range |-> range, needs |-> FALSE, approx |-> FALSE]
       ELSE IF changeStart >= start /\ changeEnd <= end
       THEN [range |-> <<start, end + delta>>, needs |-> TRUE, approx |-> FALSE]
       ELSE [range |-> range, needs |-> TRUE, approx |-> TRUE]

\* the inner loop adjusting the orphaned anchors as well
RECURSIVE AdjustList_NoSkip(_, _, _)
AdjustList_NoSkip(st, list, change) ==
    IF list = <<>> THEN st
    ELSE CHOOSE next \in
            {AdjustList_NoSkip([traces |-> [st.traces EXCEPT ![Head(list)].rangeOffset = r.range],
                                needs |-> st.needs \/ r.needs,
                                approx |-> IF r.approx THEN st.approx \cup {Head(list)}
                                           ELSE st.approx],
                               Tail(list), change) :
                r \in {AdjustRange(st.traces[Head(list)].rangeOffset, change)}} : TRUE

\* the inner loop (lines 574-591) over tracesInFile for one change;
\* st = [traces, needs, approx]; approx collects the traces left as they were
RECURSIVE AdjustList(_, _, _)
AdjustList(st, list, change) ==
    IF list = <<>> THEN st
    ELSE LET id == Head(list)
             r == AdjustRange(st.traces[id].rangeOffset, change)
         IN IF st.traces[id].orphaned
            THEN AdjustList(st, Tail(list), change)
            ELSE AdjustList([traces |-> [st.traces EXCEPT ![id].rangeOffset = r.range],
                             needs |-> st.needs \/ r.needs,
                             approx |-> IF r.approx THEN st.approx \cup {id} ELSE st.approx],
                            Tail(list), change)

\* the outer loop taking the changes of the event last to first
RECURSIVE AdjustChanges_Reversed(_, _, _)
AdjustChanges_Reversed(st, list, changes) ==
    IF changes = <<>> THEN st
    ELSE AdjustList(AdjustChanges_Reversed(st, list, Tail(changes)), list, Head(changes))

\* the outer loop (lines 569-592) over event.contentChanges
RECURSIVE AdjustChanges(_, _, _)
AdjustChanges(st, list, changes) ==
    IF changes = <<>> THEN st
    ELSE AdjustChanges(AdjustList(st, list, Head(changes)), list, Tail(changes))

\* Map.set(key, value) on the insertion-ordered queue
MapSet(q, d) == IF d \in SeqToSet(q) THEN q ELSE Append(q, d)
\* Map.delete(key)
MapDelete(q, d) == SelectSeq(q, LAMBDA x : x # d)

\* handleTextDocumentChange that starts the queue afresh with its document
handleTextDocumentChange_ResetsQueue(d, changes) ==
    \E st \in {AdjustChanges([traces |-> traces, needs |-> FALSE, approx |-> {}],
                              traceIndex[d], changes)} :
       /\ traces' = st.traces
       /\ hist' = [id \in DOMAIN hist |->
                      IF id \in st.approx \/ hist[id].o = "stale" THEN Stale
                      ELSE IF traces[id].filePath = d THEN Unvalidated
                      ELSE hist[id]]
       /\ pendingValidationDocs' = IF st.needs THEN <<d>> ELSE pendingValidationDocs
       /\ validationDebounceTimer' =
             IF st.needs THEN "debounce" ELSE validationDebounceTimer

handleTextDocumentChange(d, changes) ==
    LET st == AdjustChanges([traces |-> traces, needs |-> FALSE, approx |-> {}],
                            traceIndex[d], changes)
    IN /\ traces' = st.traces
       /\ hist' = [id \in DOMAIN hist |->
                      IF id \in st.approx \/ hist[id].o = "stale" THEN Stale
                      ELSE IF traces[id].filePath = d THEN Unvalidated
                      ELSE hist[id]]
       /\ pendingValidationDocs' =
             IF st.needs THEN MapSet(pendingValidationDocs, d) ELSE pendingValidationDocs
       /\ validationDebounceTimer' =
             IF st.needs THEN "debounce" ELSE validationDebounceTimer

\* the host applies an edit to document d and delivers its change event
EditDocument(d, changes) ==
    /\ edits < MaxEdits
    /\ BottomUp(changes)
    /\ Len(ApplyAll(docText[d], changes)) <= MaxDocLen
    /\ docText' = [docText EXCEPT ![d] = ApplyAll(@, changes)]
    /\ handleTextDocumentChange(d, changes)
    /\ edits' = edits + 1
    /\ last' = [op |-> "edit", ids |-> {}, doc |-> d, changes |-> changes, fired |-> FALSE]
    /\ UNCHANGED <<treeVars, traceIndex, mapVars, treeValidation, saveVars, pureVars>>

\* ---------------------------------------------------------------------
\* Validation Scheduler: processValidationQueue
\* ---------------------------------------------------------------------

\* document.getText(new vscode.Range(positionAt(s), positionAt(e))): the
\* positions are clamped to the text and the Range orders its ends
RangeText(text, s, e) ==
    LET cs == MinOf(MaxOf(s, 0), Len(text))
        ce == MinOf(MaxOf(e, 0), Len(text))
    IN Slice(text, MinOf(cs, ce), MaxOf(cs, ce))

\* lines 659-696 for one trace, recovered the result recoverTracePoints has
\* for it: the trace after validation, whether stateChanged was set, and
\* which branch was taken
Validation(t, text, recovered) ==
    LET startOffset == t.rangeOffset[1]
        endOffset == t.rangeOffset[2]
        newLines == <<LineOf(text, startOffset), LineOf(text, endOffset)>>
        t1 == [t EXCEPT !.lineRange = newLines]
    IN IF startOffset < 0 \/ endOffset > Len(text)
       THEN [t |-> [t EXCEPT !.orphaned = TRUE], changed |-> TRUE, outcome |-> "oob"]
       ELSE IF ~contentMatches(RangeText(text, startOffset, endOffset), t.content)
       THEN IF recovered.strategy > 0
            THEN [t |-> [t1 EXCEPT !.rangeOffset = recovered.range,
                                   !.lineRange = <<LineOf(text, recovered.range[1]),
                                                   LineOf(text, recovered.range[2])>>,
                                   !.orphaned = FALSE],
                  changed |-> TRUE,
                  outcome |-> CASE recovered.strategy = 1 -> "rec1"
                                [] recovered.strategy = 2 -> "rec2"
                                [] recovered.strategy = 3 -> "rec3"
                                [] OTHER -> "rec4"]
            ELSE [t |-> [t1 EXCEPT !.highlight = "red", !.orphaned = TRUE],
                  changed |-> TRUE, outcome |-> "failed"]
       ELSE IF t.orphaned
       THEN [t |-> [t1 EXCEPT !.orphaned = FALSE], changed |-> TRUE, outcome |-> "matched"]
       ELSE [t |-> t1, changed |-> t.lineRange # newLines, outcome |-> "matched"]

\* ValidateTrace with a failed recovery that toggles the orphaned flag
ValidateTrace_Spurious(t, text) ==
    LET v == Validation(t, text, recoverTracePoints(text, t.content, t.rangeOffset[1]))
    IN IF v.outcome = "failed" THEN [v EXCEPT !.t.orphaned = ~t.orphaned] ELSE v

\* ValidateTrace with a successful recovery that stores the text found at
\* the recovered range as the anchor's content
ValidateTrace_UpdatesSnapshot(t, text) ==
    LET v == Validation(t, text, recoverTracePoints(text, t.content, t.rangeOffset[1]))
    IN IF v.outcome \in {"rec1", "rec2", "rec3", "rec4"}
       THEN [v EXCEPT !.t.content = RangeText(text, v.t.rangeOffset[1], v.t.rangeOffset[2])]
       ELSE v

\* ValidateTrace that marks an anchor it finds out of bounds in red
ValidateTrace_RedOutOfBounds(t, text) ==
    LET v == Validation(t, text, recoverTracePoints(text, t.content, t.rangeOffset[1]))
    IN IF v.outcome = "oob" THEN [v EXCEPT !.t.highlight = "red"] ELSE v

\* ValidateTrace with a failed recovery that resets the range of the anchor
ValidateTrace_ResetsRange(t, text) ==
    LET v == Validation(t, text, recoverTracePoints(text, t.content, t.rangeOffset[1]))
    IN IF v.outcome = "failed" THEN [v EXCEPT !.t.rangeOffset = <<0, 0>>] ELSE v

\* the body of the loop over tracesInFile (lines 657-696) for one trace
ValidateTrace(t, text) ==
    Validation(t, text, recoverTracePoints(text, t.content, t.rangeOffset[1]))

\* the <<trace, document>> pairs a slice validates, in order, when the budget runs out at
\* cut = <<k, j>>: every trace of the first k - 1 queued documents and the
\* first j - 1 traces of document k.  <<k, 0>> is the check before document
\* k (line 637), <<k, j>> the check before its j-th trace (line 652), and
\* <<Len(queue) + 1, 0>> a slice that never runs out.
RECURSIVE SliceWork(_, _, _)
SliceWork(queue, k, j) ==
    LET d == Head(queue)
        inFile == [i \in 1..Len(traceIndex[d]) |-> <<traceIndex[d][i], d>>]
    IN IF queue = <<>> THEN <<>>
       ELSE IF k > 1 THEN inFile \o SliceWork(Tail(queue), k - 1, j)
       ELSE IF j >= 1 THEN SubSeq(inFile, 1, j - 1)
       ELSE <<>>

Cuts(queue) ==
    {<<k, 0>> : k \in 1..(Len(queue) + 1)}
    \cup UNION {{<<k, j>> : j \in 1..Len(traceIndex[queue[k]])} : k \in 1..Len(queue)}

\* the queue a slice leaves when a document cut in the middle is deleted
\* and not set again
QueueAfter_DropsPartial(queue, k, j) ==
    IF k > Len(queue) THEN <<>>
    ELSE IF j = 0 THEN SubSeq(queue, k, Len(queue))
    ELSE SubSeq(queue, k + 1, Len(queue))

\* the queue a slice leaves: a document cut in the middle is deleted and
\* set again, which moves it behind the documents not yet visited
QueueAfter(queue, k, j) ==
    IF k > Len(queue) THEN <<>>
    ELSE IF j = 0 THEN SubSeq(queue, k, Len(queue))
    ELSE SubSeq(queue, k + 1, Len(queue)) \o <<queue[k]>>

\* st = [traces, changed, outcome] with the result v of the validation of id
Merge(st, id, v) ==
    [traces |-> [st.traces EXCEPT ![id] = v.t],
     changed |-> st.changed \/ v.changed,
     outcome |-> [st.outcome EXCEPT ![id] = Validated(@, v.outcome)]]

\* the loop over the traces of a slice
RECURSIVE ValidateList(_, _)
ValidateList(st, work) ==
    IF work = <<>> THEN st
    ELSE CHOOSE r \in {ValidateList(Merge(st, Head(work)[1], v), Tail(work)) :
                          v \in {ValidateTrace(st.traces[Head(work)[1]],
                                               docText[Head(work)[2]])}} : TRUE

\* processValidationQueue that deletes the root anchors it finds orphaned
processValidationQueue_DropsOrphans(cut) ==
    \E work \in {SliceWork(pendingValidationDocs, cut[1], cut[2])} :
    \E st \in {ValidateList([traces |-> traces, changed |-> FALSE, outcome |-> hist], work)} :
    LET queue == pendingValidationDocs
    IN /\ traces' = st.traces
       /\ trees' = [i \in 1..Len(trees) |->
                      [trees[i] EXCEPT !.traces =
                          SelectSeq(@, LAMBDA id : ~st.traces[id].orphaned)]]
       /\ pendingValidationDocs' = QueueAfter(queue, cut[1], cut[2])
       /\ validationDebounceTimer' =
             IF cut[1] > Len(queue) THEN "none" ELSE "continuation"
       /\ hist' = st.outcome
       /\ last' = [op |-> "validate", ids |-> {w[1] : w \in SeqToSet(work)},
                   doc |-> Null, changes |-> <<>>, fired |-> st.changed]
       /\ persistIf(st.changed)

\* lines 626-706: one slice over a non-empty queue, the budget running out
\* at cut
processValidationQueue(cut) ==
    \E work \in {SliceWork(pendingValidationDocs, cut[1], cut[2])} :
    \E st \in {ValidateList([traces |-> traces, changed |-> FALSE, outcome |-> hist], work)} :
    LET queue == pendingValidationDocs
    IN /\ traces' = st.traces
       /\ trees' = trees
       /\ pendingValidationDocs' = QueueAfter(queue, cut[1], cut[2])
       /\ validationDebounceTimer' =
             IF cut[1] > Len(queue) THEN "none" ELSE "continuation"
       /\ hist' = st.outcome
       /\ last' = [op |-> "validate", ids |-> {w[1] : w \in SeqToSet(work)},
                   doc |-> Null, changes |-> <<>>, fired |-> st.changed]
       /\ persistIf(st.changed)

\* the armed timer (debounce or zero-delay continuation) fires
TimerFire ==
    /\ validationDebounceTimer # "none"
    /\ IF pendingValidationDocs = <<>>
       THEN /\ validationDebounceTimer' = "none"
            /\ last' = [op |-> "validate", ids |-> {}, doc |-> Null, changes |-> <<>>, fired |-> FALSE]
            /\ UNCHANGED <<traces, trees, pendingValidationDocs, hist, saveVars>>
       ELSE \E cut \in Cuts(pendingValidationDocs) : processValidationQueue(cut)
    /\ UNCHANGED <<docText, activeTreeId, activeGroupId, traceIndex, mapVars,
                   treeValidation, edits, pureVars>>

\* onDidCloseTextDocument that leaves the entry of the document
CloseDocument_KeepsEntry(d) ==
    /\ d \in SeqToSet(pendingValidationDocs)
    /\ pendingValidationDocs' = pendingValidationDocs
    /\ last' = [op |-> "close", ids |-> {}, doc |-> d, changes |-> <<>>, fired |-> FALSE]
    /\ UNCHANGED <<docText, traces, treeVars, traceIndex, mapVars,
                   validationDebounceTimer, treeValidation, hist, edits, saveVars, pureVars>>

\* onDidCloseTextDocument (lines 37-39), for a document that has an entry
CloseDocument(d) ==
    /\ d \in SeqToSet(pendingValidationDocs)
    /\ pendingValidationDocs' = MapDelete(pendingValidationDocs, d)
    /\ last' = [op |-> "close", ids |-> {}, doc |-> d, changes |-> <<>>, fired |-> FALSE]
    /\ UNCHANGED <<docText, traces, treeVars, traceIndex, mapVars,
                   validationDebounceTimer, treeValidation, hist, edits, saveVars, pureVars>>

\* ---------------------------------------------------------------------
\* relocateTrace (lines 382-434)
\* ---------------------------------------------------------------------

relocateTrace(id, d, s, e) ==
    LET oldFilePath == traces[id].filePath
        isDifferentFile == oldFilePath # d
        idx == FindIndex(traceIndex[oldFilePath], id)
        removed == IF idx # 0 THEN [traceIndex EXCEPT ![oldFilePath] = RemoveAt(@, idx)]
                   ELSE traceIndex
    IN /\ id \in traceIdMap
       /\ traces' = [traces EXCEPT ![id].filePath = d,
                                   ![id].rangeOffset = <<s, e>>,
                                   ![id].lineRange = <<LineOf(docText[d], s), LineOf(docText[d], e)>>,
                                   ![id].content = Dedent(Slice(docText[d], s, e)),
                                   ![id].orphaned = FALSE]
       /\ traceIndex' = IF isDifferentFile
                        THEN [removed EXCEPT ![d] = Append(@, id)]
                        ELSE traceIndex
       /\ hist' = [hist EXCEPT ![id] = Unvalidated]
       /\ last' = [op |-> "relocate", ids |-> {}, doc |-> Null, changes |-> <<>>, fired |-> FALSE]
       /\ persist
       /\ UNCHANGED <<docText, treeVars, mapVars, schedVars, treeValidation, pureVars>>

\* ---------------------------------------------------------------------
\* The engine: captures, relocations, change events, timers
\* ---------------------------------------------------------------------

\* number of anchors captured in a behaviour
MaxTraces == 2

\* the selections of the captures: non-empty [s, e) of the initial text,
\* each captured at most once
Selections(d) ==
    IF d = "f1" THEN {<<0, 5>>, <<2, 3>>} ELSE {}

\* the selections of a relocation may be empty
RelocSelections(d) ==
    {sel \in {<<0, 0>>, <<0, 1>>} : sel[2] <= Len(docText[d])}

Capture ==
    /\ Len(traces) < MaxTraces
    /\ edits = 0
    /\ edits' = edits
    /\ \E d \in Docs : \E sel \in Selections(d) :
          /\ \A id \in DOMAIN traces : traces[id].rangeOffset # sel
          /\ add(collectTrace(d, sel[1], sel[2]))

Relocate ==
    /\ edits < MaxEdits
    /\ edits' = edits + 1
    /\ \E id \in traceIdMap : \E d \in Docs : \E sel \in RelocSelections(d) :
        relocateTrace(id, d, sel[1], sel[2])

\* the documents the user edits
EditDocs == {"f1"}

Edit == \E d \in EditDocs : \E changes \in Events(docText[d]) : EditDocument(d, changes)

Close == \E d \in Docs : CloseDocument(d)

Next == Capture \/ Relocate \/ Edit \/ TimerFire \/ Close

Spec == Init /\ [][Next]_vars

\* ---------------------------------------------------------------------
\* Properties of the engine
\* ---------------------------------------------------------------------

ChangeDelta(c) == Len(c.text) - c.rangeLength

\* the sum of the deltas of the first k changes
RECURSIVE SumDelta(_, _)
SumDelta(changes, k) ==
    IF k = 0 THEN 0 ELSE SumDelta(changes, k - 1) + ChangeDelta(changes[k])

\* every change of the event ends at or before the start of the range, the
\* start taken as moved by the changes before it
AllBefore(range, changes) ==
    \A k \in 1..Len(changes) :
        changes[k].rangeOffset + changes[k].rangeLength
            <= range[1] + SumDelta(changes, k - 1)

\* every change of the event overlaps the range and lies inside it, the end
\* taken as moved by the changes before it
AllContained(range, changes) ==
    \A k \in 1..Len(changes) :
        LET cs == changes[k].rangeOffset
            ce == cs + changes[k].rangeLength
            e == range[2] + SumDelta(changes, k - 1)
        IN /\ ~(ce <= range[1])
           /\ ~(cs >= e)
           /\ range[1] <= cs
           /\ ce <= e

\* C1: a change event whose changes all end at or before the start of a
\* non-orphaned anchor leaves the anchor at [s + delta, e + delta], delta the
\* inserted minus the deleted length
OffsetShift ==
    [][last'.op = "edit" =>
          \A id \in SeqToSet(traceIndex[last'.doc]) :
             (~traces[id].orphaned /\ AllBefore(traces[id].rangeOffset, last'.changes)) =>
                traces'[id].rangeOffset =
                   <<traces[id].rangeOffset[1] + SumDelta(last'.changes, Len(last'.changes)),
                     traces[id].rangeOffset[2] + SumDelta(last'.changes, Len(last'.changes))>>]_vars

\* the anchor captured on "." at [2, 3) has moved to [3, 4) with its text
OffsetShiftWitness ==
    /\ last.op = "edit"
    /\ \E id \in DOMAIN traces :
          /\ traces[id].content = <<".">>
          /\ ~traces[id].orphaned
          /\ traces[id].rangeOffset = <<3, 4>>
          /\ Slice(docText["f1"], 3, 4) = <<".">>
          /\ hist[id].o = "none"

\* C2: a change event whose changes all overlap a non-orphaned anchor and
\* lie inside it leaves the start as it was and moves the end by delta
ContainmentGrowth ==
    [][last'.op = "edit" =>
          \A id \in SeqToSet(traceIndex[last'.doc]) :
             (~traces[id].orphaned /\ AllContained(traces[id].rangeOffset, last'.changes)) =>
                traces'[id].rangeOffset =
                   <<traces[id].rangeOffset[1],
                     traces[id].rangeOffset[2] + SumDelta(last'.changes, Len(last'.changes))>>]_vars

\* the anchor captured at [0, 5) has grown to [0, 6) by an insertion inside
ContainmentGrowthWitness ==
    /\ last.op = "edit"
    /\ \E id \in DOMAIN traces :
          /\ Len(traces[id].content) = 5
          /\ ~traces[id].orphaned
          /\ traces[id].rangeOffset = <<0, 6>>
          /\ Len(docText["f1"]) = 6
          /\ hist[id].o = "none"

InTree(id) == id \in SeqToSet(getAllFlat)

InBounds(id) ==
    /\ 0 <= traces[id].rangeOffset[1]
    /\ traces[id].rangeOffset[1] <= traces[id].rangeOffset[2]
    /\ traces[id].rangeOffset[2] <= Len(docText[traces[id].filePath])

\* C3 as stated: every anchor that is not orphaned has
\* 0 <= start <= end <= length of its document, in every state
RangeInvariant ==
    \A id \in DOMAIN traces : (InTree(id) /\ ~traces[id].orphaned) => InBounds(id)

\* C3 as amended: 0 <= start <= end for every anchor in every state, and
\* end <= length of its document for every anchor that is not orphaned and
\* that no change has overlapped without being contained in it since its
\* last validation
RangeInvariantValidated ==
    \A id \in DOMAIN traces :
       InTree(id) =>
          /\ 0 <= traces[id].rangeOffset[1]
          /\ traces[id].rangeOffset[1] <= traces[id].rangeOffset[2]
          /\ (~traces[id].orphaned /\ hist[id].o # "stale") => InBounds(id)

\* an anchor that a validation pass recovered after changes, in bounds
RangeInvariantWitness ==
    \E id \in DOMAIN traces :
       /\ InTree(id)
       /\ ~traces[id].orphaned
       /\ hist[id].o \in {"rec1", "rec2", "rec3", "rec4"}
       /\ edits = MaxEdits
       /\ InBounds(id)
       /\ Len(docText[traces[id].filePath]) < Len(InitText1)

\* the anchors of all trees with their positions: the root list of every
\* tree and the children list of every object
TreeShape == <<[i \in 1..Len(trees) |-> trees[i].traces],
               [id \in DOMAIN traces |-> traces[id].children]>>

\* C5: a change event or a validation slice leaves the anchors of the
\* trees, their ids and their parent/child positions as they were
EngineKeepsAnchors ==
    [][last'.op \in {"edit", "validate"} => TreeShape' = TreeShape]_vars

\* a validation slice has orphaned an anchor, which is still in the tree
EngineKeepsAnchorsWitness ==
    /\ last.op = "validate"
    /\ \E id \in last.ids :
          /\ InTree(id)
          /\ traces[id].orphaned
          /\ hist[id].o \in {"failed", "oob"}

Recovered == {"rec1", "rec2", "rec3", "rec4"}

TextAtRange(id) ==
    RangeText(docText[traces[id].filePath], traces[id].rangeOffset[1], traces[id].rangeOffset[2])

\* C7: an anchor whose range validation has written from a recovered range
\* has, at that range, text that matches its snapshot under contentMatches
RecoveredRevalidates ==
    \A id \in DOMAIN traces :
       hist[id].o \in Recovered => contentMatches(TextAtRange(id), traces[id].content)

OccursVerbatim(id) == IndexOf(docText[traces[id].filePath], traces[id].content) >= 0

\* C8 as stated: when the snapshot occurs verbatim in the document, a
\* validation pass that does not find the anchor's text at its range leaves
\* the anchor not orphaned and its range on an occurrence of that exact text
RecoveryRoundTrip ==
    \A id \in DOMAIN traces :
       (hist[id].o \in Recovered \cup {"failed", "oob"} /\ OccursVerbatim(id)) =>
          /\ ~traces[id].orphaned
          /\ TextAtRange(id) = traces[id].content

\* C8 as amended: when the snapshot occurs verbatim in the document and the
\* pass searches for it (the range is in bounds and its text does not
\* match), the search succeeds and the anchor is left not orphaned; the
\* range is on an occurrence of the exact text when the exact search of the
\* window or of the whole document produced it
RecoveryRoundTripSearched ==
    \A id \in DOMAIN traces :
       /\ (hist[id].o \in Recovered \cup {"failed"} /\ OccursVerbatim(id)) =>
             (hist[id].o \in Recovered /\ ~traces[id].orphaned)
       /\ hist[id].o \in {"rec1", "rec4"} => TextAtRange(id) = traces[id].content

\* the whole-document search found the text outside the window
RecoveryRoundTripWitness ==
    \E id \in DOMAIN traces :
       /\ hist[id].o = "rec4"
       /\ ~traces[id].orphaned
       /\ TextAtRange(id) = traces[id].content
       /\ traces[id].content # <<>>

\* C9: a validation of an anchor that was validated since the last change
\* of its document changes nothing of the anchor
ValidationIdempotent ==
    [][last'.op = "validate" =>
          \A id \in last'.ids :
             hist[id].o \notin {"none", "stale"} => traces'[id] = traces[id]]_vars

\* C10: a validation of an anchor that the last validation orphaned because
\* recovery failed, its document unchanged since, leaves the range as it was
\* and the anchor orphaned
OrphanStable ==
    [][last'.op = "validate" =>
          \A id \in last'.ids :
             hist[id].o = "failed" =>
                /\ traces'[id].rangeOffset = traces[id].rangeOffset
                /\ traces'[id].orphaned]_vars

\* an anchor validated twice since the last change, recovery failing
OrphanStableWitness ==
    \E id \in DOMAIN traces :
       /\ last.op = "validate"
       /\ id \in last.ids
       /\ hist[id] = [o |-> "failed", n |-> 2]
       /\ traces[id].orphaned

\* the validation of the anchor finds its range in the document, the text
\* there not matching the snapshot, and no strategy of the search succeeds
RecoveryFails(id) ==
    LET t == traces[id]
        text == docText[t.filePath]
    IN /\ t.rangeOffset[1] >= 0
       /\ t.rangeOffset[2] <= Len(text)
       /\ ~contentMatches(RangeText(text, t.rangeOffset[1], t.rangeOffset[2]), t.content)
       /\ recoverTracePoints(text, t.content, t.rangeOffset[1]).strategy = 0

\* C31: a validation that finds a content mismatch and whose recovery
\* returns null leaves the anchor orphaned and its range as it was before
\* the slice
FailedKeepsRange ==
    [][last'.op = "validate" =>
          \A id \in last'.ids :
             RecoveryFails(id) =>
                /\ traces'[id].orphaned
                /\ traces'[id].rangeOffset = traces[id].rangeOffset]_vars

\* the first validation of an anchor since a change of its document has
\* failed to recover it: it was not orphaned before and is now
FailedKeepsRangeWitness ==
    \E id \in DOMAIN traces :
       /\ last.op = "validate"
       /\ id \in last.ids
       /\ hist[id] = [o |-> "failed", n |-> 1]
       /\ traces[id].orphaned
       /\ traces[id].rangeOffset[1] < traces[id].rangeOffset[2]

\* C11: the stored content of an anchor changes only in a step of
\* relocateTrace: change events (offset adjustment) and validation slices
\* (validation, successful and failed recovery) leave it as it was
SnapshotUnchanged ==
    [][\A id \in DOMAIN traces :
          traces'[id].content # traces[id].content => last'.op = "relocate"]_vars

\* a validation slice has moved an anchor to a recovered range whose text
\* is not the stored content, which it kept
SnapshotUnchangedWitness ==
    \E id \in DOMAIN traces :
       /\ last.op = "validate"
       /\ id \in last.ids
       /\ hist[id].o \in Recovered
       /\ TextAtRange(id) # traces[id].content

\* the change overlaps the range: it lies neither entirely before its
\* start nor entirely after its end
Overlaps(range, c) ==
    /\ ~(c.rangeOffset + c.rangeLength <= range[1])
    /\ ~(c.rangeOffset >= range[2])

\* some change of the event overlaps the range of an anchor of document d
\* that is not orphaned
OverlapsSome(d, changes) ==
    \E id \in SeqToSet(traceIndex[d]) : \E k \in 1..Len(changes) :
       ~traces[id].orphaned /\ Overlaps(traces[id].rangeOffset, changes[k])

\* C14: a change event queues its document and arms the debounce when one
\* of its changes overlaps the range of an anchor that is not orphaned, and
\* leaves the queue and the timer as they were when none does
QueuesIffOverlap ==
    [][last'.op = "edit" =>
          IF OverlapsSome(last'.doc, last'.changes)
          THEN /\ last'.doc \in SeqToSet(pendingValidationDocs')
               /\ validationDebounceTimer' = "debounce"
          ELSE UNCHANGED schedVars]_vars

\* C13: a validation slice fires the change notification only when it
\* leaves the queue drained, so that a batch that takes several slices
\* fires it once, after its last slice
NotifyAfterDrain ==
    [][(last'.op = "validate" /\ last'.fired) => pendingValidationDocs' = <<>>]_vars

\* the range moved by a change that ends at or before its start
ShiftedBy(range, c) ==
    IF c.rangeOffset + c.rangeLength <= range[1]
    THEN <<range[1] + ChangeDelta(c), range[2] + ChangeDelta(c)>>
    ELSE range

\* no change of the event overlaps the range, the range taken as moved by
\* the changes before it
RECURSIVE NoOverlap(_, _)
NoOverlap(range, changes) ==
    \/ changes = <<>>
    \/ /\ ~Overlaps(range, Head(changes))
       /\ NoOverlap(ShiftedBy(range, Head(changes)), Tail(changes))

\* C21: a change event none of whose changes overlaps the range of a
\* non-orphaned anchor whose range text matches its snapshot leaves, at
\* the adjusted range of the new text, the text the old range had, and
\* the validation of the anchor then matches: it neither searches nor
\* orphans
NonOverlapKeepsText ==
    [][last'.op = "edit" =>
          \A id \in SeqToSet(traceIndex[last'.doc]) :
             (/\ ~traces[id].orphaned
              /\ contentMatches(TextAtRange(id), traces[id].content)
              /\ NoOverlap(traces[id].rangeOffset, last'.changes)) =>
                /\ RangeText(docText'[last'.doc], traces'[id].rangeOffset[1],
                             traces'[id].rangeOffset[2]) = TextAtRange(id)
                /\ ValidateTrace(traces'[id], docText'[last'.doc]).outcome = "matched"
                /\ ~ValidateTrace(traces'[id], docText'[last'.doc]).t.orphaned]_vars

\* an event of two changes, one after the anchor captured on "." and one
\* before it, has moved the anchor from [2, 3) to [1, 2) with its text
NonOverlapKeepsTextWitness ==
    /\ last.op = "edit"
    /\ Len(last.changes) = 2
    /\ \E id \in DOMAIN traces :
          /\ traces[id].content = <<".">>
          /\ ~traces[id].orphaned
          /\ traces[id].rangeOffset = <<1, 2>>
          /\ TextAtRange(id) = <<".">>
          /\ last.changes[1].rangeOffset >= 3
          /\ hist[id].o = "none"
          /\ edits = 1

\* every change of the event lies at or after the end of the range and
\* not at or before its start: the adjuster passes over the anchor
PassedOver(range, changes) ==
    \A k \in 1..Len(changes) :
       /\ ~(changes[k].rangeOffset + changes[k].rangeLength <= range[1])
       /\ changes[k].rangeOffset >= range[2]

\* C25: a change event leaves the range of every orphaned anchor of its
\* document as it was, and when the adjuster passes over every anchor of
\* the document that is not orphaned, the queue and the timer stay as
\* they were, whatever the changes are to the orphaned ones
OrphanedSkipped ==
    [][last'.op = "edit" =>
          /\ \A id \in SeqToSet(traceIndex[last'.doc]) :
                traces[id].orphaned => traces'[id].rangeOffset = traces[id].rangeOffset
          /\ (\A id \in SeqToSet(traceIndex[last'.doc]) :
                 traces[id].orphaned \/ PassedOver(traces[id].rangeOffset, last'.changes))
                => UNCHANGED schedVars]_vars

\* a change of non-zero delta before an orphaned anchor has left its range
\* and the empty queue as they were
OrphanedSkippedWitness ==
    /\ last.op = "edit"
    /\ pendingValidationDocs = <<>>
    /\ validationDebounceTimer = "none"
    /\ \E id \in SeqToSet(traceIndex[last.doc]) :
          /\ traces[id].orphaned
          /\ last.changes[1].rangeOffset + last.changes[1].rangeLength
                <= traces[id].rangeOffset[1]
          /\ ChangeDelta(last.changes[1]) # 0

\* ---------------------------------------------------------------------
\* The scheduler once edits stop: the queued documents stay open, and an
\* armed timer (debounce or continuation) fires
\* ---------------------------------------------------------------------

\* the edits before they stop: one character deleted
LiveEvents(t) == {<<c>> : c \in Changes(t, {<<>>}, 1)}

EditLive == \E d \in EditDocs : \E changes \in LiveEvents(docText[d]) : EditDocument(d, changes)

NextLive == Capture \/ EditLive \/ TimerFire

SpecLive == Init /\ [][NextLive]_vars /\ WF_vars(TimerFire)

\* the scheduler is Idle: nothing queued and no timer armed
Idle == pendingValidationDocs = <<>> /\ validationDebounceTimer = "none"

\* C12: whenever a document is queued, the scheduler eventually reaches
\* Idle, the budget running out at any of the checks of a slice
DrainLiveness == (pendingValidationDocs # <<>>) ~> Idle

\* ---------------------------------------------------------------------
\* The scheduler with anchors in two documents
\* ---------------------------------------------------------------------

QueueSelections(d) == IF d = "f1" THEN {<<0, 1>>, <<2, 3>>} ELSE {<<0, 1>>}

QueueCapture ==
    /\ Len(traces) < MaxTraces
    /\ edits = 0
    /\ edits' = edits
    /\ \E d \in Docs : \E sel \in QueueSelections(d) :
          /\ \A id \in DOMAIN traces :
                traces[id].filePath = d => traces[id].rangeOffset # sel
          /\ add(collectTrace(d, sel[1], sel[2]))

QueueEdit ==
    \E d \in Docs : \E changes \in LiveEvents(docText[d]) : EditDocument(d, changes)

NextQueue == QueueCapture \/ QueueEdit \/ TimerFire \/ Close

SpecQueue == Init /\ [][NextQueue]_vars

\* needsValidation at line 594 for the event
NeedsValidation(d, changes) ==
    AdjustChanges([traces |-> traces, needs |-> FALSE, approx |-> {}],
                  traceIndex[d], changes).needs

\* C26: a change event that needs validation replaces the armed timer,
\* debounce or continuation, by a fresh debounce and leaves every queued
\* document queued, its own included; the debounce ends only by firing,
\* and anchors are validated only when a timer fires, so none is before
\* the debounce of the most recent such event has run out
DebounceKeepsQueue ==
    [][/\ (last'.op = "edit" /\ NeedsValidation(last'.doc, last'.changes)) =>
            /\ validationDebounceTimer' = "debounce"
            /\ SeqToSet(pendingValidationDocs) \subseteq SeqToSet(pendingValidationDocs')
            /\ last'.doc \in SeqToSet(pendingValidationDocs')
       /\ (validationDebounceTimer = "debounce" /\ validationDebounceTimer' # "debounce")
            => last'.op = "validate"
       /\ last'.op = "validate" => validationDebounceTimer # "none"]_vars

\* a change event on one document has arrived with the other document
\* queued and the timer armed: both are queued behind a debounce
DebounceKeepsQueueWitness ==
    /\ last.op = "edit"
    /\ validationDebounceTimer = "debounce"
    /\ Len(pendingValidationDocs) = 2
    /\ pendingValidationDocs[2] = last.doc

\* the anchors of queued document d that the slice of the step did not
\* validate
LeftOver(d) == SeqToSet(traceIndex[d]) \ last'.ids

\* C27: a slice that the budget ends leaves every queued document that
\* has an anchor it did not validate in the queue, the one cut in the
\* middle included, and arms the continuation; a document leaves the
\* queue only in a slice that validated all its anchors, or by being
\* closed
BudgetRequeues ==
    [][/\ last'.op = "validate" =>
            \A d \in SeqToSet(pendingValidationDocs) :
               /\ LeftOver(d) # {} =>
                     /\ d \in SeqToSet(pendingValidationDocs')
                     /\ validationDebounceTimer' = "continuation"
               /\ d \notin SeqToSet(pendingValidationDocs') => LeftOver(d) = {}
       /\ (last'.op = "validate" /\ validationDebounceTimer' = "continuation") =>
            pendingValidationDocs' # <<>>
       /\ \A d \in SeqToSet(pendingValidationDocs) :
            d \notin SeqToSet(pendingValidationDocs') => last'.op \in {"validate", "close"}]_vars

\* the budget has run out before the second anchor of a document: the
\* first is validated, the document is queued and the continuation armed
BudgetRequeuesWitness ==
    /\ last.op = "validate"
    /\ validationDebounceTimer = "continuation"
    /\ \E d \in Docs :
          /\ pendingValidationDocs = <<d>>
          /\ Len(traceIndex[d]) = 2
          /\ last.ids = {traceIndex[d][1]}

\* C28: closing a document that has an entry removes the entry and
\* nothing else; a firing of the timer validates no anchor of a document
\* that is not queued, so the anchors of the closed document keep what
\* the change events left them; and a firing that finds the queue empty
\* validates nothing and leaves the scheduler Idle
ClosedDropped ==
    [][/\ last'.op = "close" =>
            /\ SeqToSet(pendingValidationDocs')
                  = SeqToSet(pendingValidationDocs) \ {last'.doc}
            /\ UNCHANGED <<traces, validationDebounceTimer>>
       /\ last'.op = "validate" =>
            \A d \in Docs \ SeqToSet(pendingValidationDocs) :
               \A id \in SeqToSet(traceIndex[d]) : traces'[id] = traces[id]
       /\ (last'.op = "validate" /\ pendingValidationDocs = <<>>) =>
            (Idle' /\ UNCHANGED traces)]_vars

\* the timer armed by a change event has fired on a queue that the
\* closing of the document had emptied: no anchor validated, Idle
ClosedDroppedWitness ==
    /\ last.op = "validate"
    /\ last.ids = {}
    /\ Idle
    /\ edits >= 1
    /\ \E id \in DOMAIN traces : hist[id] = Unvalidated /\ ~traces[id].orphaned

\* C37: a validation slice that fires the change notification (and calls
\* persist) has changed the range, the line range, the orphaned flag or
\* the highlight of at least one of the anchors it validated
QuietValidation ==
    [][(last'.op = "validate" /\ last'.fired) =>
          \E id \in last'.ids :
             \/ traces'[id].rangeOffset # traces[id].rangeOffset
             \/ traces'[id].lineRange # traces[id].lineRange
             \/ traces'[id].orphaned # traces[id].orphaned
             \/ traces'[id].highlight # traces[id].highlight]_vars

\* C30: an anchor that validation finds out of the bounds of the document
\* ends as after a failed recovery: orphaned, its range unchanged, and
\* with the highlight a failed recovery sets
OobLikeFailed ==
    [][last'.op = "validate" =>
          \A id \in last'.ids :
             hist'[id].o = "oob" =>
                /\ traces'[id].orphaned
                /\ traces'[id].rangeOffset = traces[id].rangeOffset
                /\ traces'[id].highlight = "red"]_vars

\* ---------------------------------------------------------------------
\* The Content Validator as a function of two strings
\* ---------------------------------------------------------------------

Strings(n) == UNION {[1..k -> Alphabet] : k \in 0..n}

InitPure ==
    /\ docText = [d \in Docs |-> IF d = "f1" THEN InitText1 ELSE InitText2]
    /\ InitManager
    /\ pureIn \in [live : Strings(MaxStrLen), snapshot : Strings(MaxStrLen)]
    /\ pureOut = <<>>
    /\ storage = NoStorage

\* one call of contentMatches on the drawn strings
CallContentMatches ==
    /\ pureOut = <<>>
    /\ pureOut' = <<contentMatches(pureIn.live, pureIn.snapshot)>>
    /\ UNCHANGED <<docText, traces, treeVars, traceIndex, mapVars, schedVars,
                   treeValidation, hist, last, edits, saveVars, pureIn, storage>>

NextPure == CallContentMatches

SpecPure == InitPure /\ [][NextPure]_vars

\* length of the run of non-whitespace characters at the head of t
RECURSIVE WordLen(_)
WordLen(t) ==
    IF t = <<>> \/ Head(t) \in WS THEN 0 ELSE 1 + WordLen(Tail(t))

\* the whitespace-separated tokens of t
RECURSIVE Tokens(_)
Tokens(t) ==
    IF t = <<>> THEN <<>>
    ELSE IF Head(t) \in WS THEN Tokens(Tail(t))
    ELSE <<SubSeq(t, 1, WordLen(t))>> \o Tokens(SubSeq(t, WordLen(t) + 1, Len(t)))

MaxSnapLen == 2
MaxKnownStart == 3

\* texts of three lines, of 5 and of 6 characters
LongTexts ==
    {<<x, NL, y, NL, z>> : x \in {"a", "."}, y \in {"a", "."}, z \in {"a", "."}}
    \cup {<<x, NL, y, NL, z, z>> : x \in {"a", "."}, y \in {"a", "."}, z \in {"a", "."}}

\* the callers pass an offset of the document: the start of a range that
\* passed the bounds check (lines 659-665), or the offset of a line of the
\* document or 0 (lines 1001-1004)
InitRecover ==
    /\ docText = [d \in Docs |-> IF d = "f1" THEN InitText1 ELSE InitText2]
    /\ InitManager
    /\ pureIn \in {in \in [fullText : Strings(MaxStrLen) \cup LongTexts,
                            storedContent : Strings(MaxSnapLen) \cup LongTexts,
                            lastKnownStart : 0..MaxKnownStart,
                            throws : BOOLEAN] :
                       in.lastKnownStart <= Len(in.fullText)}
    /\ pureOut = <<>>
    /\ storage = NoStorage

\* one call of recoverTracePoints on the drawn inputs
CallRecover ==
    /\ pureOut = <<>>
    /\ pureOut' = <<recoverWith(pureIn.fullText, pureIn.storedContent,
                                pureIn.lastKnownStart, pureIn.throws)>>
    /\ UNCHANGED <<docText, traces, treeVars, traceIndex, mapVars, schedVars,
                   treeValidation, hist, last, edits, saveVars, pureIn, storage>>

NextRecover == CallRecover

SpecRecover == InitRecover /\ [][NextRecover]_vars

\* the window of the search
WindowOf(in) ==
    Slice(in.fullText, searchStartOf(in.lastKnownStart),
          searchEndOf(in.fullText, in.storedContent, in.lastKnownStart))

\* each strategy is attempted and succeeds on the inputs
Succeeds1(in) == IndexOf(WindowOf(in), in.storedContent) >= 0
Succeeds2(in) ==
    /\ Len(in.storedContent) <= MAX_REGEX_LENGTH
    /\ ~in.throws
    /\ RegexExec(FlexibleWs(EscapeRegex(in.storedContent)), WindowOf(in))[1] >= 0
Succeeds3(in) ==
    /\ Len(SplitLines(Trim(in.storedContent))) >= 3
    /\ Len(in.storedContent) > minAnchorLength * 2
    /\ HeadTail(in.fullText, in.storedContent, in.lastKnownStart) # NoRange
Succeeds4(in) == IndexOf(in.fullText, in.storedContent) >= 0

\* C23: recoverTracePoints returns the result of the first strategy that
\* succeeds in the order exact in the window, pattern in the window (only
\* within the cap), triangulation (only from 3 lines and above twice the
\* anchor length), exact in the document, and null exactly when none does
CascadeOrder ==
    pureOut # <<>> =>
       /\ Succeeds1(pureIn) =>
             pureOut[1] = [strategy |-> 1,
                           range |-> WindowExact(pureIn.fullText, pureIn.storedContent,
                                                 pureIn.lastKnownStart)]
       /\ (~Succeeds1(pureIn) /\ Succeeds2(pureIn)) =>
             pureOut[1] = [strategy |-> 2,
                           range |-> WindowFlexible(pureIn.fullText, pureIn.storedContent,
                                                    pureIn.lastKnownStart)]
       /\ (~Succeeds1(pureIn) /\ ~Succeeds2(pureIn) /\ Succeeds3(pureIn)) =>
             pureOut[1] = [strategy |-> 3,
                           range |-> HeadTail(pureIn.fullText, pureIn.storedContent,
                                              pureIn.lastKnownStart)]
       /\ (~Succeeds1(pureIn) /\ ~Succeeds2(pureIn) /\ ~Succeeds3(pureIn)
              /\ Succeeds4(pureIn)) =>
             pureOut[1] = [strategy |-> 4,
                           range |-> WholeExact(pureIn.fullText, pureIn.storedContent)]
       /\ (pureOut[1].strategy = 0) <=>
             ~(Succeeds1(pureIn) \/ Succeeds2(pureIn) \/ Succeeds3(pureIn)
                 \/ Succeeds4(pureIn))

\* triangulation has found a snapshot of three lines after the exact
\* search and the pattern, which was within the cap, failed
CascadeOrderWitness ==
    /\ pureOut # <<>>
    /\ pureOut[1].strategy = 3
    /\ Len(pureIn.storedContent) <= MAX_REGEX_LENGTH
    /\ ~pureIn.throws

\* the snapshot occurs verbatim between the ends of the window
OccursInWindow(in) ==
    \E i \in searchStartOf(in.lastKnownStart)..
               (searchEndOf(in.fullText, in.storedContent, in.lastKnownStart)
                   - Len(in.storedContent)) :
        SubSeq(in.fullText, i + 1, i + Len(in.storedContent)) = in.storedContent

\* the pattern is attempted on the inputs: the exact search of the window
\* failed and the snapshot is within the cap
PatternAttempted(in) ==
    ~Succeeds1(in) /\ Len(in.storedContent) <= MAX_REGEX_LENGTH

\* C29: when the pattern raises an error, recoverTracePoints still returns
\* a result and not the error: never the pattern's, but the one of
\* triangulation if it succeeds, else the one of the whole-document search
\* if it succeeds, else null, so that the caller goes on as after any call
RegexContained ==
    (pureOut # <<>> /\ pureIn.throws) =>
       /\ pureOut[1].strategy \in {0, 1, 3, 4}
       /\ ~Succeeds1(pureIn) =>
             /\ Succeeds3(pureIn) =>
                   pureOut[1] = [strategy |-> 3,
                                 range |-> HeadTail(pureIn.fullText, pureIn.storedContent,
                                                    pureIn.lastKnownStart)]
             /\ (~Succeeds3(pureIn) /\ Succeeds4(pureIn)) =>
                   pureOut[1] = [strategy |-> 4,
                                 range |-> WholeExact(pureIn.fullText, pureIn.storedContent)]
             /\ (~Succeeds3(pureIn) /\ ~Succeeds4(pureIn)) =>
                   pureOut[1] = [strategy |-> 0, range |-> NoRange]

\* the pattern, which would have matched in the window, raised an error
\* and the whole-document search has found the snapshot
RegexContainedWitness ==
    /\ pureOut # <<>>
    /\ pureIn.throws
    /\ PatternAttempted(pureIn)
    /\ RegexExec(FlexibleWs(EscapeRegex(pureIn.storedContent)), WindowOf(pureIn))[1] >= 0
    /\ pureOut[1].strategy = 4

\* C24: a range returned by one of the strategies 1 to 3 lies between the
\* ends of the window with start <= end, and a snapshot that occurs
\* verbatim in the window is found there by the exact search of the
\* window, not by a later strategy
BoundedWindow ==
    pureOut # <<>> =>
       /\ pureOut[1].strategy \in {1, 2, 3} =>
             /\ searchStartOf(pureIn.lastKnownStart) <= pureOut[1].range[1]
             /\ pureOut[1].range[1] <= pureOut[1].range[2]
             /\ pureOut[1].range[2] <=
                   searchEndOf(pureIn.fullText, pureIn.storedContent, pureIn.lastKnownStart)
       /\ OccursInWindow(pureIn) =>
             /\ pureOut[1].strategy = 1
             /\ Slice(pureIn.fullText, pureOut[1].range[1], pureOut[1].range[2])
                   = pureIn.storedContent

\* the exact search of the window has found the snapshot in a window that
\* ends before the document does, past an occurrence before the window
BoundedWindowWitness ==
    /\ pureOut # <<>>
    /\ pureOut[1].strategy = 1
    /\ pureIn.storedContent # <<>>
    /\ searchEndOf(pureIn.fullText, pureIn.storedContent, pureIn.lastKnownStart)
          < Len(pureIn.fullText)
    /\ IndexOf(pureIn.fullText, pureIn.storedContent) < searchStartOf(pureIn.lastKnownStart)

\* ---------------------------------------------------------------------
\* Tree operations of the TraceManager
\* ---------------------------------------------------------------------

Op(name) == [op |-> name, ids |-> {}, doc |-> Null, changes |-> <<>>, fired |-> FALSE]

\* getActiveRootTraces over the trees trs with active tree atid
ActiveRoots(trs, atid) ==
    LET pos == FindIndex([i \in 1..Len(trs) |-> trs[i].id], atid)
    IN IF pos = 0 THEN <<>> ELSE trs[pos].traces

\* the calls of visit in rebuildTraceIndex, in order: <<id, parentId>>
RECURSIVE visit(_, _, _)
visit(tr, list, parentId) ==
    IF list = <<>> THEN <<>>
    ELSE <<<<Head(list), parentId>>>>
         \o visit(tr, tr[Head(list)].children, Head(list))
         \o visit(tr, Tail(list), parentId)

\* rebuildTraceIndex over the objects tr, the trees trs and the active tree
\* atid: the three maps are cleared and filled from the active tree
rebuildTraceIndex(tr, trs, atid) ==
    LET v == visit(tr, ActiveRoots(trs, atid), NoId)
        ids == {v[i][1] : i \in 1..Len(v)}
        inFile(d) == SelectSeq(v, LAMBDA p : tr[p[1]].filePath = d)
    IN /\ traceIndex' = [d \in Docs |-> [i \in 1..Len(inFile(d)) |-> inFile(d)[i][1]]]
       /\ traceIdMap' = ids
       /\ parentIdMap' = [id \in ids |-> v[Max({i \in 1..Len(v) : v[i][1] = id})][2]]

\* getTracesForFile(filePath)
getTracesForFile(d) == traceIndex[d]

\* the list a group id stands for: the root list of the active tree for
\* null, the children of the anchor otherwise
ListAt(g) == IF g = NoId THEN getActiveRootTraces ELSE traces[g].children

\* the trees and the objects with that list replaced
WithList(g, new) ==
    [trees |-> IF g = NoId /\ TreePos(activeTreeId) # 0
               THEN [trees EXCEPT ![TreePos(activeTreeId)].traces = new]
               ELSE trees,
     traces |-> IF g = NoId THEN traces ELSE [traces EXCEPT ![g].children = new]]

\* removeFromTree(id): the trees and the objects after the splice
removeFromTree(id) ==
    LET same == [trees |-> trees, traces |-> traces]
        parentId == parentIdMap[id]
        parentList == ListAt(parentId)
        idx == FindIndex(parentList, id)
    IN IF id \notin traceIdMap \/ id \notin DOMAIN parentIdMap THEN same
       ELSE IF parentId # NoId /\ parentId \notin traceIdMap THEN same
       ELSE IF idx > 0 THEN WithList(parentId, RemoveAt(parentList, idx))
       ELSE same

remove(id) ==
    LET r == removeFromTree(id)
    IN /\ trees' = r.trees
       /\ traces' = r.traces
       /\ activeGroupId' = ResolvedGroup
       /\ rebuildTraceIndex(r.traces, r.trees, activeTreeId)
       /\ last' = Op("remove")
       /\ persist
       /\ UNCHANGED <<docText, activeTreeId, schedVars, treeValidation, hist, pureVars>>

reorder(orderedIds) ==
    LET children == ListAt(ResolvedGroup)
        reordered == SelectSeq(orderedIds, LAMBDA id : id \in SeqToSet(children))
        r == WithList(ResolvedGroup, reordered)
    IN /\ trees' = r.trees
       /\ traces' = r.traces
       /\ activeGroupId' = ResolvedGroup
       /\ last' = Op("reorder")
       /\ persist
       /\ UNCHANGED <<docText, activeTreeId, traceIndex, mapVars, schedVars,
                      treeValidation, hist, pureVars>>

clear ==
    /\ trees' = IF TreePos(activeTreeId) = 0 THEN trees
                ELSE [trees EXCEPT ![TreePos(activeTreeId)].traces = <<>>]
    /\ activeGroupId' = NoId
    /\ traceIndex' = [d \in Docs |-> <<>>]
    /\ last' = Op("clear")
    /\ persist
    /\ UNCHANGED <<docText, traces, activeTreeId, mapVars, schedVars,
                   treeValidation, hist, pureVars>>

clearActiveChildren ==
    LET r == WithList(ResolvedGroup, <<>>)
    IN /\ trees' = r.trees
       /\ traces' = r.traces
       /\ activeGroupId' = ResolvedGroup
       /\ rebuildTraceIndex(r.traces, r.trees, activeTreeId)
       /\ last' = Op("clearActiveChildren")
       /\ persist
       /\ UNCHANGED <<docText, activeTreeId, schedVars, treeValidation, hist, pureVars>>

\* createTree(name); tid is the value of crypto.randomUUID()
createTree(name, tid) ==
    LET newTree == [id |-> tid,
                    name |-> IF name = "" THEN "Untitled Trace" ELSE name,
                    traces |-> <<>>]
    IN /\ trees' = Append(trees, newTree)
       /\ activeTreeId' = tid
       /\ rebuildTraceIndex(traces, Append(trees, newTree), tid)
       /\ last' = Op("createTree")
       /\ persist
       /\ UNCHANGED <<docText, traces, activeGroupId, schedVars, treeValidation,
                      hist, pureVars>>

\* validateActiveTreeBackground up to its first await: a run in progress is
\* cancelled, and the call of validateAndRecover it may be waiting in still
\* writes its result; the new run takes the anchors of the active tree
\* the call of validateAndRecover a run is waiting in when it is cancelled
Pending ==
    IF treeValidation.inFlight THEN {Head(treeValidation.todo)} ELSE {}

validateActiveTreeBackground(tr, trs, atid) ==
    \E flat \in {FlatOf(tr, ActiveRoots(trs, atid))} :
       treeValidation' = [todo |-> flat,
                          stray |-> treeValidation.stray \cup Pending,
                          changed |-> FALSE,
                          running |-> flat # <<>>,
                          orig |-> IF flat = <<>> THEN <<>>
                                   ELSE <<Head(flat), tr[Head(flat)]>>,
                          inFlight |-> flat # <<>>]

switchTree(id) ==
    IF TreePos(id) # 0
    THEN /\ activeTreeId' = id
         /\ activeGroupId' = NoId
         /\ rebuildTraceIndex(traces, trees, id)
         /\ validateActiveTreeBackground(traces, trees, id)
         /\ last' = [Op("switchTree") EXCEPT !.doc = id]
         /\ UNCHANGED <<docText, traces, trees, schedVars, hist, saveVars, pureVars>>
    ELSE /\ last' = [Op("switchTree") EXCEPT !.doc = id]
         /\ UNCHANGED <<docText, traces, treeVars, traceIndex, mapVars, schedVars,
                        treeValidation, hist, saveVars, pureVars>>

\* deleteTree that removes the only tree as it removes any other
deleteTree_RemovesLast(id) ==
    LET idx == TreePos(id)
        spliced == RemoveAt(trees, idx)
    IN IF idx = 0
       THEN /\ last' = [Op("deleteTree") EXCEPT !.doc = id]
            /\ UNCHANGED <<docText, traces, treeVars, traceIndex, mapVars, schedVars,
                           treeValidation, hist, saveVars, pureVars>>
       ELSE /\ trees' = spliced
            /\ activeTreeId' = IF activeTreeId = id /\ spliced # <<>>
                               THEN spliced[MaxOf(1, idx - 1)].id ELSE activeTreeId
            /\ activeGroupId' = IF activeTreeId = id THEN NoId ELSE activeGroupId
            /\ rebuildTraceIndex(traces, trees', activeTreeId')
            /\ last' = [Op("deleteTree") EXCEPT !.doc = id]
            /\ persist
            /\ UNCHANGED <<docText, traces, schedVars, treeValidation, hist, pureVars>>

deleteTree(id) ==
    LET idx == TreePos(id)
        spliced == RemoveAt(trees, idx)
        newActive == spliced[MaxOf(1, idx - 1)]
    IN IF idx = 0
       THEN /\ last' = [Op("deleteTree") EXCEPT !.doc = id]
            /\ UNCHANGED <<docText, traces, treeVars, traceIndex, mapVars, schedVars,
                           treeValidation, hist, saveVars, pureVars>>
       ELSE /\ IF Len(trees) <= 1
               THEN /\ trees' = [trees EXCEPT ![1].name = "Default Trace",
                                              ![1].traces = <<>>]
                    /\ activeTreeId' = trees[1].id
                    /\ activeGroupId' = NoId
               ELSE /\ trees' = spliced
                    /\ activeTreeId' = IF activeTreeId = id THEN newActive.id ELSE activeTreeId
                    /\ activeGroupId' = IF activeTreeId = id THEN NoId ELSE activeGroupId
            /\ rebuildTraceIndex(traces, trees', activeTreeId')
            /\ last' = [Op("deleteTree") EXCEPT !.doc = id]
            /\ persist
            /\ UNCHANGED <<docText, traces, schedVars, treeValidation, hist, pureVars>>

\* the loop of getDepth from curr with d levels counted
RECURSIVE DepthFrom(_, _)
DepthFrom(curr, d) ==
    IF curr \notin DOMAIN parentIdMap THEN -1
    ELSE IF parentIdMap[curr] = NoId THEN d
    ELSE DepthFrom(parentIdMap[curr], d + 1)

getDepth(id) == IF id \notin traceIdMap THEN -1 ELSE DepthFrom(id, 0)

\* enterGroup without the limit on the depth
enterGroup_NoDepthLimit(id) ==
    /\ activeGroupId' =
          IF getDepth(id) < 0 \/ id \notin traceIdMap THEN activeGroupId ELSE id
    /\ last' = Op("enterGroup")
    /\ UNCHANGED <<docText, traces, trees, activeTreeId, traceIndex, mapVars,
                   schedVars, treeValidation, hist, saveVars, pureVars>>

\* enterGroup(id): false is the branch that leaves activeGroupId as it was
enterGroup(id) ==
    /\ activeGroupId' =
          IF getDepth(id) < 0 \/ getDepth(id) >= MAX_DEPTH - 1 \/ id \notin traceIdMap
          THEN activeGroupId ELSE id
    /\ last' = Op("enterGroup")
    /\ UNCHANGED <<docText, traces, trees, activeTreeId, traceIndex, mapVars,
                   schedVars, treeValidation, hist, saveVars, pureVars>>

\* findParentTraceId(id)
findParentTraceId(id) ==
    IF id \in DOMAIN parentIdMap THEN parentIdMap[id] ELSE NoId

exitGroup ==
    /\ activeGroupId' =
          IF activeGroupId = NoId THEN NoId ELSE findParentTraceId(activeGroupId)
    /\ last' = Op("exitGroup")
    /\ UNCHANGED <<docText, traces, trees, activeTreeId, traceIndex, mapVars,
                   schedVars, treeValidation, hist, saveVars, pureVars>>

\* ---------------------------------------------------------------------
\* Background validation of the active tree: validateAndRecover
\* ---------------------------------------------------------------------

\* 1-based positions of the line breaks of t
NLPos(t) == SelectSeq([i \in 1..Len(t) |-> i], LAMBDA i : t[i] = NL)

\* doc.lineCount
LineCount(t) == Len(NLPos(t)) + 1

\* doc.offsetAt(new vscode.Position(line, 0))
LineStart(t, line) == IF line = 0 THEN 0 ELSE NLPos(t)[line]

\* doc.offsetAt(doc.lineAt(line).range.end)
LineEnd(t, line) == IF line < Len(NLPos(t)) THEN NLPos(t)[line + 1] - 1 ELSE Len(t)

\* lines 1005-1017: the trace after the search, recovered its result
Recover(t, text, recovered) ==
    IF recovered.strategy > 0
    THEN [t |-> [t EXCEPT !.rangeOffset = recovered.range,
                          !.lineRange = <<LineOf(text, recovered.range[1]),
                                          LineOf(text, recovered.range[2])>>,
                          !.orphaned = FALSE],
          outcome |-> CASE recovered.strategy = 1 -> "rec1"
                        [] recovered.strategy = 2 -> "rec2"
                        [] recovered.strategy = 3 -> "rec3"
                        [] OTHER -> "rec4"]
    ELSE [t |-> [t EXCEPT !.highlight = "red", !.orphaned = TRUE],
          outcome |-> "failed"]

\* validateAndRecover(trace) from the resumption after openTextDocument,
\* for a file that exists: the trace after it and the branch taken
validateAndRecover(t, text) ==
    LET startLine == t.lineRange[1]
        endLine == t.lineRange[2]
        startPos == LineStart(text, startLine)
        endPos == LineEnd(text, MinOf(endLine, LineCount(text) - 1))
        estimatedOffset == IF startLine < LineCount(text) THEN startPos ELSE 0
    IN IF startLine < LineCount(text)
          /\ contentMatches(RangeText(text, startPos, endPos), t.content)
       THEN [t |-> [t EXCEPT !.rangeOffset = <<startPos, endPos>>, !.orphaned = FALSE],
             outcome |-> "lines"]
       ELSE Recover(t, text, recoverTracePoints(text, t.content, estimatedOffset))

\* the write of the result v of one call of validateAndRecover
WriteBack(id, v) ==
    /\ traces' = [traces EXCEPT ![id] = v.t]
    /\ hist' = [hist EXCEPT ![id] = Validated(@, v.outcome)]
    /\ last' = [op |-> "background", ids |-> {id}, doc |-> Null, changes |-> <<>>, fired |-> FALSE]
    /\ UNCHANGED <<docText, treeVars, traceIndex, mapVars, schedVars, saveVars, pureVars>>

\* the write of validateAndRecover computed from the anchor as the loop
\* found it before the call
BackgroundWrite_ReadAtCall(id) ==
    IF treeValidation.inFlight /\ treeValidation.orig[1] = id
    THEN WriteBack(id, validateAndRecover(treeValidation.orig[2],
                                          docText[treeValidation.orig[2].filePath]))
    ELSE WriteBack(id, validateAndRecover(traces[id], docText[traces[id].filePath]))

BackgroundWrite(id) ==
    WriteBack(id, validateAndRecover(traces[id], docText[traces[id].filePath]))

\* lines 226-234: the offsets, the orphaned flag, the highlight or the
\* line range of the anchor differ from the originals of lines 216-219
BackgroundChanged(id) ==
    \/ traces'[id].rangeOffset # treeValidation.orig[2].rangeOffset
    \/ traces'[id].orphaned # treeValidation.orig[2].orphaned
    \/ traces'[id].highlight # treeValidation.orig[2].highlight
    \/ traces'[id].lineRange # treeValidation.orig[2].lineRange

\* lines 211-221: after the zero-delay yield the loop takes the next
\* anchor, keeps its originals and calls validateAndRecover, which waits
\* for fs.stat and openTextDocument
BackgroundCall ==
    /\ treeValidation.todo # <<>>
    /\ ~treeValidation.inFlight
    /\ treeValidation' =
          [treeValidation EXCEPT
              !.orig = <<Head(treeValidation.todo), traces[Head(treeValidation.todo)]>>,
              !.inFlight = TRUE]
    /\ last' = [op |-> "call", ids |-> {Head(treeValidation.todo)}, doc |-> Null,
                changes |-> <<>>, fired |-> FALSE]
    /\ UNCHANGED <<docText, traces, treeVars, traceIndex, mapVars, schedVars, hist,
                   edits, saveVars, pureVars>>

\* lines 221-237: the call of validateAndRecover resumes, reads the anchor
\* and the document, writes its result, and the loop compares and yields
BackgroundStep ==
    /\ treeValidation.inFlight
    /\ BackgroundWrite(Head(treeValidation.todo))
    /\ treeValidation' =
          [treeValidation EXCEPT !.todo = Tail(@),
                                 !.changed = @ \/ BackgroundChanged(Head(treeValidation.todo)),
                                 !.inFlight = FALSE]
    /\ UNCHANGED edits

\* lines 240-249: the end of a run that was not cancelled
BackgroundFinish ==
    /\ treeValidation.running
    /\ treeValidation.todo = <<>>
    /\ persistIf(treeValidation.changed)
    /\ treeValidation' = [treeValidation EXCEPT !.changed = FALSE, !.running = FALSE,
                                                !.orig = <<>>]
    /\ last' = [op |-> "background", ids |-> {}, doc |-> Null, changes |-> <<>>, fired |-> FALSE]
    /\ UNCHANGED <<docText, traces, treeVars, traceIndex, mapVars, schedVars, hist,
                   edits, pureVars>>

\* a call left in flight by a cancelled run completes
BackgroundStray ==
    \E id \in treeValidation.stray :
       /\ BackgroundWrite(id)
       /\ treeValidation' = [treeValidation EXCEPT !.stray = @ \ {id}]
       /\ UNCHANGED edits

\* ---------------------------------------------------------------------
\* The Anchor Store under the operations of the user
\* ---------------------------------------------------------------------

\* anchors created in a behaviour, trees in the list, ids of a reorder
MaxTreeTraces == 3
MaxTrees == 2
MaxReorder == 2

\* operations in a behaviour
MaxOps == 5

TreeIdPool == {"t1", "t2"}
TreeNames == {"", "n"}

\* the selection of a capture
TreeSelections(d) == {<<0, 1>>}

IdLists == UNION {[1..k -> DOMAIN traces] : k \in 0..MaxReorder}

Counted == edits < MaxOps /\ edits' = edits + 1

DoAdd ==
    /\ Counted
    /\ Len(traces) < MaxTreeTraces
    /\ \E d \in Docs : \E sel \in TreeSelections(d) : add(collectTrace(d, sel[1], sel[2]))

DoRemove == Counted /\ \E id \in DOMAIN traces : remove(id)

DoReorder == Counted /\ \E orderedIds \in IdLists : reorder(orderedIds)

DoRelocate ==
    /\ Counted
    /\ \E id \in DOMAIN traces : \E d \in Docs : \E sel \in RelocSelections(d) :
          relocateTrace(id, d, sel[1], sel[2])

DoClear == Counted /\ clear

DoClearActiveChildren == Counted /\ clearActiveChildren

DoCreateTree ==
    /\ Counted
    /\ Len(trees) < MaxTrees
    /\ \E name \in TreeNames :
          \E tid \in TreeIdPool \ {trees[i].id : i \in 1..Len(trees)} : createTree(name, tid)

DoSwitchTree == Counted /\ \E id \in TreeIdPool \cup {"default"} : switchTree(id)

DoDeleteTree == Counted /\ \E id \in TreeIdPool \cup {"default"} : deleteTree(id)

DoEnterGroup == Counted /\ \E id \in DOMAIN traces : enterGroup(id)

DoExitGroup == Counted /\ exitGroup

NextTree ==
    \/ DoAdd \/ DoRemove \/ DoReorder \/ DoRelocate \/ DoClear
    \/ DoClearActiveChildren \/ DoCreateTree \/ DoSwitchTree \/ DoDeleteTree
    \/ DoEnterGroup \/ DoExitGroup \/ BackgroundCall \/ BackgroundStep
    \/ BackgroundFinish \/ BackgroundStray

SpecTree == Init /\ [][NextTree]_vars

\* the anchors of the flattened active tree that reference document d
TreeAnchorsOf(d) == {id \in SeqToSet(getAllFlat) : traces[id].filePath = d}

\* C4: the index list of every document holds exactly the anchors of the
\* flattened active tree that reference the document
IndexAgreement ==
    \A d \in Docs : SeqToSet(getTracesForFile(d)) = TreeAnchorsOf(d)

\* ---------------------------------------------------------------------
\* The operations on the anchors of one tree
\* ---------------------------------------------------------------------

NextIds == DoAdd \/ DoRemove \/ DoReorder \/ DoRelocate \/ DoClearActiveChildren

SpecIds == Init /\ [][NextIds]_vars

\* the anchors of tree i, every list flattened in order
TreeFlat(i) == FlatOf(traces, trees[i].traces)

\* C15: no tree holds an anchor id twice
UniqueIds ==
    \A i \in 1..Len(trees) :
       \A j, k \in 1..Len(TreeFlat(i)) : j # k => TreeFlat(i)[j] # TreeFlat(i)[k]

\* number of entries of list that are id
CountOf(list, id) == Cardinality({i \in 1..Len(list) : list[i] = id})

\* the state relocateTrace(id, d, s, e) has to leave: the anchor once in
\* the index list of d and in no other list, its range the selection, its
\* content the dedented text of the selection, not orphaned, and no
\* validation or recovery recorded for it
Relocated(id, d, s, e) ==
    /\ CountOf(traceIndex'[d], id) = 1
    /\ \A other \in Docs \ {d} : CountOf(traceIndex'[other], id) = 0
    /\ traces'[id].filePath = d
    /\ traces'[id].rangeOffset = <<s, e>>
    /\ traces'[id].content = Dedent(Slice(docText[d], s, e))
    /\ ~traces'[id].orphaned
    /\ hist'[id] = Unvalidated

\* C16: every step of relocateTrace on an anchor of the active tree leaves
\* the anchor relocated, in one step
AtomicRelocation ==
    [][\A id \in DOMAIN traces : \A d \in Docs : \A sel \in RelocSelections(d) :
          (InTree(id) /\ relocateTrace(id, d, sel[1], sel[2])) =>
             Relocated(id, d, sel[1], sel[2])]_vars

\* ---------------------------------------------------------------------
\* Groups: add, enterGroup, exitGroup and remove from the empty tree
\* ---------------------------------------------------------------------

\* number of anchors and of operations in a behaviour
MaxGroupTraces == 4
MaxGroupOps == 7

GroupCounted == edits < MaxGroupOps /\ edits' = edits + 1

GroupAdd ==
    /\ GroupCounted
    /\ Len(traces) < MaxGroupTraces
    /\ add(collectTrace("f1", 0, 1))

GroupEnter == GroupCounted /\ \E id \in DOMAIN traces : enterGroup(id)

GroupExit == GroupCounted /\ exitGroup

GroupRemove == GroupCounted /\ \E id \in DOMAIN traces : remove(id)

NextGroup == GroupAdd \/ GroupEnter \/ GroupExit \/ GroupRemove

SpecGroup == Init /\ [][NextGroup]_vars

\* C32: when remove returns, the active group is null if it was the
\* removed anchor or one of its descendants (it was in the active tree and
\* is no longer), and is unchanged otherwise
RemoveResetsGroup ==
    [][last'.op = "remove" =>
          IF /\ activeGroupId # NoId
             /\ activeGroupId \in SeqToSet(getAllFlat)
             /\ activeGroupId \notin SeqToSet(getAllFlat')
          THEN activeGroupId' = NoId
          ELSE activeGroupId' = activeGroupId]_vars

\* the <<id, depth>> of every anchor below list, the anchors of list at
\* depth d
RECURSIVE Depths(_, _, _)
Depths(tr, list, d) ==
    IF list = <<>> THEN {}
    ELSE {<<Head(list), d>>} \cup Depths(tr, tr[Head(list)].children, d + 1)
                            \cup Depths(tr, Tail(list), d)

TreeDepths == UNION {Depths(traces, trees[i].traces, 0) : i \in 1..Len(trees)}

\* C17: enterGroup(id) leaves the active group as it was when id is not in
\* the tree or is at depth MAX_DEPTH - 1 or deeper, and every anchor of the
\* tree is at depth MAX_DEPTH - 1 at most
DepthLimit ==
    /\ [](\A p \in TreeDepths : p[2] <= MAX_DEPTH - 1)
    /\ [][\A id \in DOMAIN traces :
            (/\ enterGroup(id)
             /\ \/ id \notin {p[1] : p \in TreeDepths}
                \/ \E p \in TreeDepths : p[1] = id /\ p[2] >= MAX_DEPTH - 1)
            => activeGroupId' = activeGroupId]_vars

\* an enterGroup has left the active group above an anchor at the deepest
\* level, and the tree holds a second anchor at that level
DepthLimitWitness ==
    /\ last.op = "enterGroup"
    /\ \E p, q \in TreeDepths :
          /\ p[1] # q[1]
          /\ p[2] = MAX_DEPTH - 1
          /\ q[2] = MAX_DEPTH - 1
          /\ activeGroupId = parentIdMap[p[1]]

\* ---------------------------------------------------------------------
\* One event of several changes against several events of one change
\* ---------------------------------------------------------------------

\* the anchors after handleTextDocumentChange of one event on the document
\* whose index entry is list
HandleEvent(tr, list, changes) ==
    AdjustChanges([traces |-> tr, needs |-> FALSE, approx |-> {}], list, changes).traces

\* the anchors after one event per change, in the order of the changes
RECURSIVE HandleSingly(_, _, _)
HandleSingly(tr, list, changes) ==
    IF changes = <<>> THEN tr
    ELSE HandleSingly(HandleEvent(tr, list, <<Head(changes)>>), list, Tail(changes))

\* C19: an event whose changes are c1, ..., cn leaves every anchor with the
\* range that n events of one change each, c1 first, leave: each change
\* meets the ranges the change before it left
BatchOrder ==
    [][last'.op = "edit" =>
          \A id \in DOMAIN traces :
              traces'[id].rangeOffset =
                  HandleSingly(traces, traceIndex[last'.doc], last'.changes)[id].rangeOffset]_vars

\* an event of two changes has been handled on a document with a live
\* anchor that the first change reached and the second one moved
BatchOrderWitness ==
    /\ last.op = "edit"
    /\ Len(last.changes) = 2
    /\ \E id \in DOMAIN traces :
          /\ traces[id].filePath = last.doc
          /\ ~traces[id].orphaned
          /\ last.changes[1].rangeOffset < traces[id].rangeOffset[2]
          /\ Len(last.changes[2].text) # last.changes[2].rangeLength

\* ---------------------------------------------------------------------
\* Persistence: the debounced save, deactivate and dispose
\* ---------------------------------------------------------------------

\* the serialized anchors of list, children nested
RECURSIVE Json(_, _)
Json(tr, list) ==
    [i \in 1..Len(list) |->
        [id |-> list[i],
         filePath |-> tr[list[i]].filePath,
         rangeOffset |-> tr[list[i]].rangeOffset,
         lineRange |-> tr[list[i]].lineRange,
         content |-> tr[list[i]].content,
         orphaned |-> tr[list[i]].orphaned,
         highlight |-> tr[list[i]].highlight,
         children |-> Json(tr, tr[list[i]].children)]]

\* the value workspaceState.update(storageKey, this.trees) stores
Serialized(trs, tr) ==
    [i \in 1..Len(trs) |->
        [id |-> trs[i].id, name |-> trs[i].name, traces |-> Json(tr, trs[i].traces)]]

\* the callback of the timer of persist (lines 122-125)
PersistFire ==
    /\ persistenceDebounceTimer
    /\ workspaceState' = Serialized(trees, traces)
    /\ persistenceDebounceTimer' = FALSE
    /\ last' = Op("persist")
    /\ UNCHANGED <<docText, traces, treeVars, traceIndex, mapVars, schedVars,
                   treeValidation, hist, edits, pureVars>>

\* flush(): a pending save is written at once
flush ==
    /\ workspaceState' = IF persistenceDebounceTimer THEN Serialized(trees, traces)
                         ELSE workspaceState
    /\ persistenceDebounceTimer' = FALSE
    /\ last' = Op("flush")
    /\ UNCHANGED <<docText, traces, treeVars, traceIndex, mapVars, schedVars,
                   treeValidation, hist, edits, pureVars>>

\* deactivate() of the extension
Deactivate == flush

\* dispose(): the token sources are cancelled, both timers cleared, the
\* queue and the maps emptied; a call of validateAndRecover the background
\* run is waiting in still writes its result
dispose ==
    /\ treeValidation' = [NoTreeValidation EXCEPT
                             !.stray = treeValidation.stray \cup Pending]
    /\ validationDebounceTimer' = "none"
    /\ persistenceDebounceTimer' = FALSE
    /\ pendingValidationDocs' = <<>>
    /\ traceIndex' = [d \in Docs |-> <<>>]
    /\ traceIdMap' = {}
    /\ parentIdMap' = <<>>
    /\ last' = Op("dispose")
    /\ UNCHANGED <<docText, traces, treeVars, workspaceState, hist, edits, pureVars>>

Dispose == dispose

NextSave == DoAdd \/ DoRemove \/ DoRelocate \/ PersistFire \/ Deactivate \/ Dispose

SpecSave == Init /\ [][NextSave]_vars /\ WF_vars(PersistFire)

\* C18: once a save is scheduled, workspaceState eventually holds the trees
\* as they are then
SaveEventually ==
    persistenceDebounceTimer ~> (workspaceState = Serialized(trees, traces))

\* ---------------------------------------------------------------------
\* Edits, relocations and the two validations side by side
\* ---------------------------------------------------------------------

SwitchPhase == edits < MaxEdits /\ edits' = edits + 1 /\ switchTree("default")

NextPhases ==
    \/ Capture \/ EditLive \/ Relocate \/ TimerFire \/ SwitchPhase
    \/ BackgroundCall \/ BackgroundStep \/ BackgroundFinish \/ BackgroundStray

SpecPhases == Init /\ [][NextPhases]_vars

ForestCreate ==
    /\ edits = 0
    /\ edits' = edits
    /\ Len(trees) < MaxTrees
    /\ \E tid \in TreeIdPool \ {trees[i].id : i \in 1..Len(trees)} : createTree("n", tid)

ForestSwitch ==
    /\ edits < MaxEdits
    /\ edits' = edits + 1
    /\ \E id \in {trees[i].id : i \in 1..Len(trees)} : switchTree(id)

NextForest ==
    \/ Capture \/ ForestCreate \/ ForestSwitch \/ EditLive \/ TimerFire
    \/ BackgroundCall \/ BackgroundStep \/ BackgroundFinish \/ BackgroundStray

SpecForest == Init /\ [][NextForest]_vars

\* the anchors of all stored trees
InSomeTree(id) ==
    \E i \in 1..Len(trees) : id \in SeqToSet(FlatOf(traces, trees[i].traces))

\* the rules of the Offset Adjuster applied to a range for every change
RECURSIVE Adjusted(_, _)
Adjusted(range, changes) ==
    IF changes = <<>> THEN range
    ELSE Adjusted(AdjustRange(range, Head(changes)).range, Tail(changes))

\* C22: after a change event every non-orphaned anchor of a stored tree,
\* active or not, that references the edited document has the range the
\* rules of the Offset Adjuster give for the changes of the event
AllAdjusted ==
    [][last'.op = "edit" =>
          \A id \in DOMAIN traces :
             (InSomeTree(id) /\ traces[id].filePath = last'.doc /\ ~traces[id].orphaned) =>
                traces'[id].rangeOffset = Adjusted(traces[id].rangeOffset, last'.changes)]_vars


\* ---------------------------------------------------------------------
\* The operations on the trees and on the active group
\* ---------------------------------------------------------------------

\* importTraceTree(markdown, treeName) after parseMarkdown has returned
\* imported, the anchors of the root list it built (without children); tid
\* is the value of crypto.randomUUID().  A parseMarkdown that throws
\* changes nothing.
importTraceTree(imported, treeName, tid) ==
    LET newTraces == traces \o imported
        newTree == [id |-> tid,
                    name |-> IF treeName = "" THEN "Imported Trace" ELSE treeName,
                    traces |-> [i \in 1..Len(imported) |-> Len(traces) + i]]
    IN /\ traces' = newTraces
       /\ trees' = Append(trees, newTree)
       /\ activeTreeId' = tid
       /\ rebuildTraceIndex(newTraces, Append(trees, newTree), tid)
       /\ hist' = hist \o [i \in 1..Len(imported) |-> Unvalidated]
       /\ last' = Op("importTraceTree")
       /\ persist
       /\ UNCHANGED <<docText, activeGroupId, schedVars, treeValidation, pureVars>>

\* the markdown holds no anchor, or one that validateAndRecover found
DoImportTraceTree ==
    /\ Counted
    /\ Len(trees) < MaxTrees
    /\ \E imported \in {<<>>, <<collectTrace("f1", 0, 1)>>} :
          /\ Len(traces) + Len(imported) <= MaxTreeTraces
          /\ \E treeName \in TreeNames :
                \E tid \in TreeIdPool \ {trees[i].id : i \in 1..Len(trees)} :
                   importTraceTree(imported, treeName, tid)

NextActive ==
    \/ DoAdd \/ DoClear \/ DoClearActiveChildren \/ DoCreateTree
    \/ DoImportTraceTree \/ DoSwitchTree \/ DoDeleteTree \/ DoEnterGroup
    \/ DoExitGroup

SpecActive == Init /\ [][NextActive]_vars

\* C35: the active group is null or an anchor of the active tree
ActiveGroupValid ==
    activeGroupId = NoId \/ activeGroupId \in SeqToSet(getAllFlat)

\* updateNote(id, note)
updateNote(id, note) ==
    /\ traces' = IF id \in traceIdMap THEN [traces EXCEPT ![id].note = note] ELSE traces
    /\ persistIf(id \in traceIdMap)
    /\ last' = Op("updateNote")
    /\ UNCHANGED <<docText, treeVars, traceIndex, mapVars, schedVars, treeValidation,
                   hist, pureVars>>

\* updateHighlight(id, highlight)
updateHighlight(id, highlight) ==
    /\ traces' = IF id \in traceIdMap THEN [traces EXCEPT ![id].highlight = highlight]
                 ELSE traces
    /\ persistIf(id \in traceIdMap)
    /\ last' = Op("updateHighlight")
    /\ UNCHANGED <<docText, treeVars, traceIndex, mapVars, schedVars, treeValidation,
                   hist, pureVars>>

\* the user writes a note or picks a colour once for an anchor, before the
\* edits
DoUpdateNote ==
    /\ edits = 0
    /\ edits' = edits
    /\ \E id \in DOMAIN traces : traces[id].note = "" /\ updateNote(id, "n")

DoUpdateHighlight ==
    /\ edits = 0
    /\ edits' = edits
    /\ \E id \in DOMAIN traces :
          traces[id].highlight = "none" /\ updateHighlight(id, "blue")

\* the edits: one change that deletes any part of the text or types "a"
FrameEvents(t) == {<<c>> : c \in Changes(t, {<<>>, <<"a">>}, MaxDocLen)}

FrameEdit ==
    \E d \in EditDocs : \E changes \in FrameEvents(docText[d]) : EditDocument(d, changes)

NextFrame ==
    \/ Capture \/ DoUpdateNote \/ DoUpdateHighlight \/ FrameEdit \/ TimerFire
    \/ SwitchPhase \/ BackgroundCall \/ BackgroundStep \/ BackgroundFinish
    \/ BackgroundStray

SpecFrame == Init /\ [][NextFrame]_vars

TreeListOk ==
    /\ Len(trees) >= 1
    /\ TreePos(activeTreeId) # 0

\* C39: the list of trees is never empty and the active tree is always
\* one of the list; deleteTree on the only tree keeps it, emptied and
\* renamed, and active; switchTree with an id of no tree changes nothing
\* of the manager
TreeListInvariant ==
    /\ TreeListOk
    /\ [][/\ TreeListOk'
          /\ (last'.op = "deleteTree" /\ Len(trees) = 1 /\ TreePos(last'.doc) # 0) =>
               /\ trees' = <<[id |-> trees[1].id, name |-> "Default Trace",
                               traces |-> <<>>]>>
               /\ activeTreeId' = trees[1].id
          /\ (last'.op = "switchTree" /\ TreePos(last'.doc) = 0) =>
               UNCHANGED <<traces, treeVars, traceIndex, mapVars, treeValidation>>]_vars

\* the only tree, which held an anchor, has been deleted and is still
\* there, empty
TreeListWitness ==
    /\ last.op = "deleteTree"
    /\ Len(trees) = 1
    /\ last.doc = trees[1].id
    /\ trees[1].traces = <<>>
    /\ Len(traces) >= 1

NextLookup ==
    \/ DoAdd \/ DoRemove \/ DoClear \/ DoClearActiveChildren \/ DoReorder
    \/ DoCreateTree \/ DoSwitchTree

SpecLookup == Init /\ [][NextLookup]_vars

\* C36: findTraceById finds exactly the anchors of the active tree, and
\* the parent map has an entry for exactly those
LookupAgrees ==
    /\ traceIdMap = SeqToSet(getAllFlat)
    /\ DOMAIN parentIdMap = SeqToSet(getAllFlat)

\* ---------------------------------------------------------------------
\* Edits that take a character away and put it back, until they stop
\* ---------------------------------------------------------------------

\* one character deleted, or "." typed
UndoEvents(t) == {<<c>> : c \in Changes(t, {<<>>, <<".">>}, 1)}

UndoEdit ==
    \E d \in Docs : \E changes \in UndoEvents(docText[d]) : EditDocument(d, changes)

NextUndo == QueueCapture \/ UndoEdit \/ TimerFire

SpecUndo == Init /\ [][NextUndo]_vars /\ WF_vars(TimerFire)

\* the last edit there will be was one of the document of the orphaned
\* anchor id, whose snapshot the document now holds verbatim
BroughtBack(id) ==
    /\ id \in DOMAIN traces
    /\ traces[id].orphaned
    /\ traces[id].content # <<>>
    /\ last.op = "edit"
    /\ last.doc = traces[id].filePath
    /\ edits = MaxEdits
    /\ OccursVerbatim(id)

\* C34: when an edit brings the snapshot of an orphaned anchor back into
\* its document and the edits stop, a validation pass eventually leaves the
\* anchor not orphaned
OrphanRecovers ==
    \A id \in 1..MaxTraces :
       BroughtBack(id) ~> (id \in DOMAIN traces /\ ~traces[id].orphaned)

\* ---------------------------------------------------------------------
\* FileStorageManager: save and load over the main, backup and temp file
\* ---------------------------------------------------------------------

MaxSaves == 3

\* the values of TraceTree[] that are saved: lists of trees
TreeLists == {<<>>, <<"a">>, <<"b">>, <<"a", "b">>}

\* JSON.stringify of a list: the brackets around its elements
Stringify(treeList) == <<"[">> \o treeList \o <<"]">>

\* JSON.parse: <<value>>, or <<>> when it throws because the text is not
\* a complete list
Parse(text) ==
    IF Len(text) >= 2 /\ text[1] = "[" /\ text[Len(text)] = "]"
    THEN <<SubSeq(text, 2, Len(text) - 1)>>
    ELSE <<>>

\* what an interrupted write of text can leave of it: a proper prefix
Torn(text) == {<<SubSeq(text, 1, k)>> : k \in 0..(Len(text) - 1)}

uriExists(file) == file # <<>>

\* readFileSafely: null (<<>>) for a missing file and for one that does not
\* parse
readFileSafely(file) == IF uriExists(file) THEN Parse(file[1]) ELSE <<>>

\* load: the main file, else the backup, else null
load ==
    LET data == readFileSafely(storage.main)
        backupData == readFileSafely(storage.backup)
    IN IF data # <<>> THEN [from |-> "main", data |-> data]
       ELSE IF backupData # <<>> THEN [from |-> "backup", data |-> backupData]
       ELSE [from |-> "none", data |-> <<>>]

StorageFrame ==
    UNCHANGED <<docText, traces, treeVars, traceIndex, mapVars, schedVars,
                treeValidation, hist, last, edits, saveVars, pureIn, pureOut>>

\* save(trees) is called and has its storage directory
SaveCall ==
    /\ storage.pc = "idle"
    /\ storage.calls < MaxSaves
    /\ \E treeList \in TreeLists :
          storage' = [storage EXCEPT !.pc = "write", !.data = <<treeList>>,
                                     !.tried = @ \cup {treeList},
                                     !.calls = @ + 1, !.loaded = <<>>]
    /\ StorageFrame

\* step 1: writeFile on the temp file; when it fails the temp file is as it
\* was or holds a part of the text
WriteTemp ==
    /\ storage.pc = "write"
    /\ \/ storage' = [storage EXCEPT !.temp = <<Stringify(storage.data[1])>>,
                                     !.pc = "rotate"]
       \/ \E file \in {storage.temp} \cup Torn(Stringify(storage.data[1])) :
             storage' = [storage EXCEPT !.temp = file, !.pc = "catch"]
    /\ StorageFrame

\* step 2 left out: the main file is never copied to the backup
RotateBackup_Skipped ==
    /\ storage.pc = "rotate"
    /\ storage' = [storage EXCEPT !.pc = "promote"]
    /\ StorageFrame

\* step 2: the main file, if it exists, is copied over the backup; when the
\* copy fails the backup is as it was, missing, or holds a part of the text
RotateBackup ==
    /\ storage.pc = "rotate"
    /\ IF uriExists(storage.main)
       THEN \/ storage' = [storage EXCEPT !.backup = storage.main, !.pc = "promote"]
            \/ \E file \in {storage.backup, <<>>} \cup Torn(storage.main[1]) :
                  storage' = [storage EXCEPT !.backup = file, !.pc = "catch"]
       ELSE storage' = [storage EXCEPT !.pc = "promote"]
    /\ StorageFrame

\* step 3: the temp file is renamed over the main file, which ends the
\* save; when the rename fails the main file is as it was, or, where the
\* rename is not atomic, already removed
Promote ==
    /\ storage.pc = "promote"
    /\ \/ storage' = [storage EXCEPT !.main = storage.temp, !.temp = <<>>,
                                     !.pc = "idle", !.saved = storage.data,
                                     !.tried = {}, !.data = <<>>]
       \/ \E file \in {storage.main, <<>>} :
             storage' = [storage EXCEPT !.main = file, !.pc = "catch"]
    /\ StorageFrame

\* the catch block: the temp file is deleted, an error of the deletion
\* ignored
CatchSave ==
    /\ storage.pc = "catch"
    /\ \E file \in {<<>>, storage.temp} :
          storage' = [storage EXCEPT !.temp = file, !.pc = "idle", !.data = <<>>]
    /\ StorageFrame

\* the extension host ends while save is running: the files stay as they
\* are
Interrupt ==
    /\ storage.pc # "idle"
    /\ storage' = [storage EXCEPT !.pc = "idle", !.data = <<>>]
    /\ StorageFrame

\* a call of load while no save is running
Load ==
    /\ storage.pc = "idle"
    /\ storage.loaded = <<>>
    /\ storage' = [storage EXCEPT !.loaded = <<load>>]
    /\ StorageFrame

NextStorage ==
    SaveCall \/ WriteTemp \/ RotateBackup \/ Promote \/ CatchSave \/ Interrupt \/ Load

SpecStorage == Init /\ [][NextStorage]_vars

\* the file holds a complete list
Parses(file) == file # <<>> /\ Parse(file[1]) # <<>>

\* C33: once a save has completed, a load after any number of interrupted
\* or failed saves returns a list in full, the one of the completed save or
\* the one of a save started since, never null; and load returns the main
\* file when it parses, otherwise the backup, otherwise null
CrashSafeSave ==
    storage.loaded # <<>> =>
       /\ storage.saved # <<>> =>
             /\ storage.loaded[1].from # "none"
             /\ storage.loaded[1].data[1] \in {storage.saved[1]} \cup storage.tried
       /\ Parses(storage.main) =>
             storage.loaded[1] = [from |-> "main", data |-> Parse(storage.main[1])]
       /\ (~Parses(storage.main) /\ Parses(storage.backup)) =>
             storage.loaded[1] = [from |-> "backup", data |-> Parse(storage.backup[1])]
       /\ (~Parses(storage.main) /\ ~Parses(storage.backup)) =>
             storage.loaded[1] = [from |-> "none", data |-> <<>>]

\* a save after a completed one has failed at the rename with the main
\* file removed, and load has returned the list of the completed save from
\* the backup
CrashSafeSaveWitness ==
    /\ storage.loaded # <<>>
    /\ storage.saved # <<>>
    /\ storage.tried # {}
    /\ storage.saved[1] \notin storage.tried
    /\ storage.loaded[1] = [from |-> "backup", data |-> storage.saved]
====
